---------------------------- MODULE Spec2Model ----------------------------
(***************************************************************************)
(* A model of the retrieval-and-refinement pipeline of yeneta:             *)
(*   - MemoryAugmentedRAG   (src/rag_engine/memory_rag.py)                 *)
(*   - SelfReflectiveRAG    (src/rag_engine/reflective_rag.py)             *)
(*   - HybridSearchEngine   (src/rag_engine/hybrid_search.py)              *)
(* The three engines are separate objects that share no state, so each has *)
(* a specification of its own (SpecMemory, SpecValidator, SpecSearch) over *)
(* the same variables; Spec is their interleaving.                         *)
(*                                                                         *)
(* Conventions.  A score is a rational of the code, held as an integer in  *)
(* units of 1/ScoreUnit (1.0 = 50 units).  A text is held by what the code *)
(* reads of it: its length, its leading/trailing whitespace and the        *)
(* pattern and marker words it contains.  Time stamps are left out.        *)
(***************************************************************************)
EXTENDS Integers, Sequences, FiniteSets, TLC

VARIABLES
    \* ---- st.session_state.memory_rag (memory_rag.py:51-65)
    session_memory,       \* list of memory entries
    long_term_memory,     \* list of memory entries
    interaction_history,  \* list of memory entries
    learning_profile,     \* record
    topic_mastery,        \* topic -> [correct, total]
    memory_shape,         \* "memory": memory_rag is a dict of the five keys
                          \* above; "other": it is some other JSON value
    exported,             \* the last string export_memory returned
    import_call,          \* the last import_memory call and its outcome
    personalize_call,     \* the last personalize_response call and what
                          \* failed in it
    personalized,         \* what that call gave its caller
    clear_call,           \* the last clear_memory call and the memory it found
    update_threads,       \* the _update_memory calls running at the same time:
                          \* where each one is and its local values
    \* ---- one SelfReflectiveRAG.validate_response call (reflective_rag.py:71-125)
    stage,                \* the step the call is at ("IDLE": no call in progress)
    response,             \* the draft the call was given
    safety_score, safety_issues,
    quality_score, quality_issues,
    accuracy_score, accuracy_issues,
    improved_response,
    outcome,              \* what the call gave its caller
    llm_reply,            \* the last reply of the text-completion service
    repair_calls,         \* calls of _generate_improved_response in this call
    failures,             \* the sub-checks that failed in this call
    trace,                \* the steps this call has run, in order
    \* ---- HybridSearchEngine (hybrid_search.py)
    collection,           \* the chunks of self.collection, in insertion order
    add_returned,         \* what the add_documents call just made returned
    search_stage,         \* "IDLE", "ADDED": an add_documents call has just
                          \* returned, or "RETURNED": a search has
    search_call,          \* that search: its arguments and what failed in it
    results,              \* the list it returned
    ingested,             \* the chunks handed to that add_documents call,
                          \* when it returned True
    collection_bound,     \* what self.collection refers to: "live", a
                          \* collection of the store, or "deleted", one the
                          \* store no longer has
    reset_call,           \* the reset_collection call just made: what it
                          \* returned and the chunks it found
    \* ---- MultilingualRAGEngine.detect_language (multilingual_rag.py:92-127)
    detect_call,          \* the last call: its text and what langdetect did
    detected_language,    \* what that call returned
    \* ---- YenetaApp.generate_ai_response (app.py:1591-1672)
    has_multilingual_rag, \* hasattr(self, 'multilingual_rag')
    orch_stage,           \* the step the call is at ("IDLE": no call)
    orch_call,            \* its arguments and the uploaded files
    context_len,          \* len(context)
    target_lang,
    orch_response,        \* what the call gave its caller
    orch_trace,           \* the stages the call has run, in order
    \* ---- AdaptiveRAGEngine (adaptive_rag.py)
    learning_progress,    \* st.session_state.learning_progress: per level and
                          \* language, the questions asked and topics covered
    adaptive_call,        \* the generate_response call just made: its level,
                          \* the template and the level profile it used
    adaptive_response     \* what that call gave its caller

memOtherCalls == <<clear_call, update_threads>>
memCallVars == <<exported, import_call, personalize_call, personalized,
                 memOtherCalls>>
memVars == <<session_memory, long_term_memory, interaction_history,
             learning_profile, topic_mastery, memory_shape, memCallVars>>

valVars == <<stage, response, safety_score, safety_issues, quality_score,
             quality_issues, accuracy_score, accuracy_issues,
             improved_response, outcome, llm_reply, repair_calls, failures,
             trace>>

resetVars == <<collection_bound, reset_call>>

searchVars ==
    <<collection, add_returned, search_stage, search_call, results, ingested,
      resetVars>>

langVars == <<detect_call, detected_language>>

orchVars == <<has_multilingual_rag, orch_stage, orch_call, context_len,
              target_lang, orch_response, orch_trace>>

adaptVars == <<learning_progress, adaptive_call, adaptive_response>>

vars == <<memVars, valVars, searchVars, langVars, orchVars, adaptVars>>

\* What the operations of one engine leave alone: the other engines.
notMemory == <<valVars, searchVars, langVars, orchVars, adaptVars>>
notValidator == <<memVars, searchVars, langVars, orchVars, adaptVars>>
notSearch == <<memVars, valVars, langVars, orchVars, adaptVars>>
notLanguage == <<memVars, valVars, searchVars, orchVars, adaptVars>>
notOrchestrator == <<memVars, valVars, searchVars, langVars, adaptVars>>
notAdaptive == <<memVars, valVars, searchVars, langVars, orchVars>>

-----------------------------------------------------------------------------
(***************************************************************************)
(* Generic helpers on sequences.                                           *)
(***************************************************************************)

\* Python's s[-n:] for n >= 1: the last n elements, the whole list when it is
\* shorter.
LastN(s, n) ==
    IF Len(s) <= n THEN s ELSE SubSeq(s, Len(s) - n + 1, Len(s))

\* A wrong slice, s[:n]: keeps the oldest n elements.
FirstN(s, n) ==
    IF Len(s) <= n THEN s ELSE SubSeq(s, 1, n)

\* The sequences over S of length 0..n.
SeqsUpTo(S, n) == UNION {[1..m -> S] : m \in 0..n}

EmptyMap == [x \in {} |-> 0]

\* Python's d[k] = v and d.get(k, default) on a dict held as a function.
SetKey(d, k, v) == [x \in DOMAIN d \cup {k} |-> IF x = k THEN v ELSE d[x]]
Get(d, k, default) == IF k \in DOMAIN d THEN d[k] ELSE default

\* A text: len characters in all, pad of them leading or trailing whitespace,
\* and has, the pattern and marker words that occur in its lower-cased form.
\* NoText is a value that is not a string (None).
Text(l, p, h) == [isStr |-> TRUE, len |-> l, pad |-> p, has |-> h]
NoText == [isStr |-> FALSE, len |-> 0, pad |-> 0, has |-> {}]

\* str.strip() (memory_rag.py:243, reflective_rag.py:288): the surrounding
\* whitespace goes.
Strip(t) == [t EXCEPT !.len = t.len - t.pad, !.pad = 0]

\* The largest leading/trailing whitespace of a reply explored.
MaxPad == 1

-----------------------------------------------------------------------------
(***************************************************************************)
(* MemoryAugmentedRAG                                                      *)
(***************************************************************************)

\* memory_config["session_memory_size"] and ["long_term_memory_size"].  The
\* code configures 20 and 1000; the model runs the same code with the caps
\* scaled down so that both are exceeded within the explored histories.
session_memory_size == 2
long_term_memory_size == 3

\* The longest interaction_history explored (the code's list is unbounded).
MaxHistory == 4

Languages == {"en", "am"}
Levels == {"beginner"}

\* common_topics of _extract_topics, in list order.
common_topics ==
    << "mathematics", "algebra", "geometry", "calculus",
       "science", "biology", "chemistry", "physics",
       "history", "geography", "literature", "language",
       "art", "music", "sports", "technology" >>

\* A message content is held as the list of its words; a word contains a topic
\* name when the name is a substring of it ("art" in "smart").
TopicsInWord(w) ==
    CASE w = "algebra" -> {"algebra"}
      [] w = "smart"   -> {"art"}
      [] w = "physics" -> {"physics"}
      [] OTHER         -> {}

\* _extract_topics: the topics of common_topics, in that order, whose name
\* occurs in the lower-cased text.
RECURSIVE FilterTopics(_, _)
FilterTopics(ts, present) ==
    IF ts = << >> THEN << >>
    ELSE (IF Head(ts) \in present THEN <<Head(ts)>> ELSE << >>)
         \o FilterTopics(Tail(ts), present)

_extract_topics(text) ==
    FilterTopics(common_topics,
                 UNION {TopicsInWord(text[i]) : i \in 1..Len(text)})

\* The turns of st.session_state.messages (app.py:1459, 1472): dicts with a
\* role and a string content.
Turns ==
    { [role |-> "user",      content |-> <<"smart", "algebra">>],
      [role |-> "assistant", content |-> <<"hello">>] }

\* The memory_entry built per interaction (memory_rag.py:109-117).
MemoryEntry(interaction, language, learning_level) ==
    [ query            |-> interaction.content,
      response         |-> interaction.content,
      language         |-> language,
      learning_level   |-> learning_level,
      topics           |-> _extract_topics(interaction.content),
      interaction_type |-> interaction.role ]

RECURSIVE Entries(_, _, _)
Entries(turns, language, learning_level) ==
    IF turns = << >> THEN << >>
    ELSE <<MemoryEntry(Head(turns), language, learning_level)>>
         \o Entries(Tail(turns), language, learning_level)

\* Line 124 done wrongly: the slice keeps the head of the list.
TrimSessionKeepOldest(s) == FirstN(s, session_memory_size)

\* Lines 123-124: keep session memory within limits.
TrimSession(s) ==
    IF Len(s) > session_memory_size THEN LastN(s, session_memory_size) ELSE s

\* Line 127 without the slice.
LongTermUncapped(h) == h

\* Line 127: long_term_memory is the tail of interaction_history.
LongTermOf(h) == LastN(h, long_term_memory_size)

\* _init_memory_structures (memory_rag.py:48-65).
InitMemory ==
    /\ session_memory = << >>
    /\ long_term_memory = << >>
    /\ interaction_history = << >>
    /\ learning_profile =
         [ weak_topics        |-> EmptyMap,
           strong_topics      |-> EmptyMap,
           learning_patterns  |-> EmptyMap,
           preferred_language |-> "en",
           preferred_level    |-> "beginner",
           total_interactions |-> 0 ]
    /\ topic_mastery = EmptyMap
    /\ memory_shape = "memory"
    /\ exported = [made |-> FALSE]
    /\ import_call = [made |-> FALSE]
    /\ personalize_call = [made |-> FALSE]
    /\ personalized = [kind |-> "none"]
    /\ clear_call = [made |-> FALSE]
    /\ update_threads =
         [t \in {"first", "second"} |->
            [pc |-> "idle", pending |-> << >>, slice |-> << >>]]

\* The methods of the object run one at a time: none starts while the caller
\* of another has not taken its result.
MemoryIdle ==
    ~import_call.made /\ ~personalize_call.made /\ ~clear_call.made

\* _update_memory(user_history, language, learning_level)
\* (memory_rag.py:101-131).
UpdateMemoryWith(user_history, language, learning_level) ==
    LET recent_interactions == LastN(user_history, session_memory_size)
        new == Entries(recent_interactions, language, learning_level)
        history == interaction_history \o new
    IN  /\ MemoryIdle
        /\ memory_shape = "memory"
        /\ Len(interaction_history) + Len(recent_interactions) <= MaxHistory
        /\ session_memory' = TrimSession(session_memory \o new)
        /\ interaction_history' = history
        /\ long_term_memory' = LongTermOf(history)
        /\ learning_profile' =
             SetKey(learning_profile, "total_interactions", Len(history))
        /\ UNCHANGED <<topic_mastery, memory_shape, memCallVars, notMemory>>

UpdateMemory ==
    \E user_history \in SeqsUpTo(Turns, session_memory_size + 1),
       language \in Languages, learning_level \in Levels :
        UpdateMemoryWith(user_history, language, learning_level)

NextMemory == UpdateMemory

\* C1: after any sequence of memory updates session_memory holds at most
\* session_memory_size entries and long_term_memory at most
\* long_term_memory_size entries.
C1_WindowsWithinCaps ==
    /\ Len(session_memory) <= session_memory_size
    /\ Len(long_term_memory) <= long_term_memory_size

\* More entries were recorded than either cap allows, and both windows are
\* full.
C1_Witness ==
    /\ Len(interaction_history) > long_term_memory_size
    /\ Len(session_memory) = session_memory_size
    /\ Len(long_term_memory) = long_term_memory_size

\* C2: eviction is FIFO: each window holds exactly the most recently recorded
\* entries (as many as its cap), in arrival order; interaction_history is the
\* code's own record of every entry in arrival order (line 120).
C2_FifoEviction ==
    /\ session_memory = LastN(interaction_history, session_memory_size)
    /\ long_term_memory = LastN(interaction_history, long_term_memory_size)

\* Both windows have evicted, and what they evicted differs from what they
\* kept.
C2_Witness ==
    /\ Len(interaction_history) > long_term_memory_size
    /\ session_memory # FirstN(interaction_history, session_memory_size)
    /\ long_term_memory # FirstN(interaction_history, long_term_memory_size)
    /\ session_memory = LastN(interaction_history, session_memory_size)

-----------------------------------------------------------------------------
(***************************************************************************)
(* MemoryAugmentedRAG: topic mastery                                       *)
(***************************************************************************)

\* The topics given feedback on, and the most attempts recorded per topic.
MasteryTopics == {"algebra", "art"}
MaxAttempts == 2

\* Lines 374-375: the entry of a topic, created at (0, 0) when unseen.
MasteryOf(topic) ==
    IF topic \in DOMAIN topic_mastery THEN topic_mastery[topic]
    ELSE [correct |-> 0, total |-> 0]

\* Lines 377-379 counting every attempt as correct.
MasteryAfterAlwaysCorrect(old, correct) ==
    [correct |-> old.correct + 1, total |-> old.total + 1]

\* Lines 377-379.
MasteryAfter(old, correct) ==
    [correct |-> IF correct THEN old.correct + 1 ELSE old.correct,
     total   |-> old.total + 1]

\* update_topic_mastery(topic, correct) (lines 370-379).
UpdateTopicMasteryWith(topic, correct) ==
    /\ MemoryIdle
    /\ memory_shape = "memory"
    /\ MasteryOf(topic).total < MaxAttempts
    /\ topic_mastery' =
         [t \in DOMAIN topic_mastery \cup {topic} |->
            IF t = topic THEN MasteryAfter(MasteryOf(topic), correct)
            ELSE topic_mastery[t]]
    /\ UNCHANGED <<session_memory, long_term_memory, interaction_history,
                   learning_profile, memory_shape, memCallVars, notMemory>>

UpdateTopicMastery ==
    \E topic \in MasteryTopics, correct \in BOOLEAN :
        UpdateTopicMasteryWith(topic, correct)

\* get_topic_mastery(topic) (lines 381-395); accuracy in hundredths.
get_topic_mastery(topic) ==
    IF topic \notin DOMAIN topic_mastery
    THEN [correct |-> 0, total |-> 0, accuracy |-> 0]
    ELSE [correct  |-> topic_mastery[topic].correct,
          total    |-> topic_mastery[topic].total,
          accuracy |-> IF topic_mastery[topic].total > 0
                       THEN (100 * topic_mastery[topic].correct)
                                \div topic_mastery[topic].total
                       ELSE 0]

NextMastery == UpdateMemory \/ UpdateTopicMastery

\* C16: update_topic_mastery(topic, correct) adds 1 to the topic's total and
\* 1 to its correct count exactly when correct is true, starting an unseen
\* topic at (0, 0), and changes no other topic and neither memory window;
\* so 0 <= correct <= total for every topic at all times.
C16_TopicMasteryCounts ==
    /\ [](\A t \in DOMAIN topic_mastery :
            /\ 0 <= topic_mastery[t].correct
            /\ topic_mastery[t].correct <= topic_mastery[t].total
            /\ get_topic_mastery(t).accuracy \in 0..100)
    /\ [][\A topic \in MasteryTopics, correct \in BOOLEAN :
            UpdateTopicMasteryWith(topic, correct) =>
                /\ DOMAIN topic_mastery' = DOMAIN topic_mastery \cup {topic}
                /\ topic_mastery'[topic].total = MasteryOf(topic).total + 1
                /\ topic_mastery'[topic].correct =
                      MasteryOf(topic).correct + (IF correct THEN 1 ELSE 0)
                /\ \A t \in DOMAIN topic_mastery \ {topic} :
                      topic_mastery'[t] = topic_mastery[t]
                /\ session_memory' = session_memory
                /\ long_term_memory' = long_term_memory]_vars

\* Two topics with feedback, one of them with a wrong and a right answer,
\* beside memory windows that hold entries.
C16_Witness ==
    /\ DOMAIN topic_mastery = MasteryTopics
    /\ topic_mastery["algebra"] = [correct |-> 1, total |-> 2]
    /\ topic_mastery["art"] = [correct |-> 0, total |-> 1]
    /\ Len(session_memory) = session_memory_size


-----------------------------------------------------------------------------
(***************************************************************************)
(* MemoryAugmentedRAG.personalize_response                                 *)
(***************************************************************************)

\* memory_config["weak_topic_threshold"], and ["strong_topic_threshold"]
\* (8 in the code) scaled down so that a topic reaches it within MaxHistory.
weak_topic_threshold == 3
strong_topic_threshold == 2

\* The largest profile["weak_topics"] counter explored (line 293 adds 1 per
\* call without limit).
MaxWeakCount == 2

\* A topic that is a JSON array: a value no dict accepts as a key.
UnhashableTopic == "[]"

\* The user_history arguments: st.session_state.messages before the first
\* question, after it and after its answer (app.py:1459, 1472), and None.
UserHistories ==
    {[is_list |-> TRUE, items |-> h] :
        h \in { << >>,
                << [role |-> "user", content |-> <<"smart", "algebra">>] >>,
                << [role |-> "user", content |-> <<"smart", "algebra">>],
                   [role |-> "assistant", content |-> <<"hello">>] >> }}
    \cup {[is_list |-> FALSE, items |-> << >>]}

\* The drafts handed over for personalization, and what the model call may
\* answer ("raises": chain.invoke raises).
\* The learning_level arguments of personalize_response.
PersonalizeLevels == {"beginner", "advanced"}

PersonalizeDrafts == {Text(4, 1, {})}
PersonalizedReplies == {Text(3 + p, p, {"personal"}) : p \in 0..MaxPad}
ModelOutcomes ==
    {[raises |-> FALSE, text |-> t] : t \in PersonalizedReplies}
    \cup {[raises |-> TRUE, text |-> NoText]}

\* Lines 147-159: how often a value of a field occurs over the interactions,
\* and where it occurs first (dicts keep insertion order).
ValuesOf(interactions, field) ==
    {interactions[i][field] : i \in 1..Len(interactions)}
CountOf(interactions, field, v) ==
    Cardinality({i \in 1..Len(interactions) : interactions[i][field] = v})
FirstAt(interactions, field, v) ==
    CHOOSE i \in 1..Len(interactions) :
        /\ interactions[i][field] = v
        /\ \A j \in 1..(i - 1) : interactions[j][field] # v

\* Lines 146-155: the keys of a counts dict, in the order the loop inserted
\* them.
CountKeys(interactions, field) ==
    LET RECURSIVE Keys(_, _)
        Keys(i, acc) ==
            IF i > Len(interactions) THEN acc
            ELSE Keys(i + 1,
                      IF \E k \in 1..Len(acc) : acc[k] = interactions[i][field]
                      THEN acc
                      ELSE Append(acc, interactions[i][field]))
    IN  Keys(1, << >>)

\* Lines 170-171 with a max() that keeps the last of several largest items.
PreferredLastMax(interactions, field) ==
    LET items == CountKeys(interactions, field)
        RECURSIVE Scan(_, _)
        Scan(i, best) ==
            IF i > Len(items) THEN best
            ELSE Scan(i + 1,
                      IF CountOf(interactions, field, items[i])
                            >= CountOf(interactions, field, best)
                      THEN items[i] ELSE best)
    IN  Scan(2, items[1])

\* Lines 170-171: max(counts.items(), key=count)[0].  max() walks the items
\* in dict order and replaces its candidate only by a strictly larger one.
Preferred(interactions, field) ==
    LET items == CountKeys(interactions, field)
        RECURSIVE Scan(_, _)
        Scan(i, best) ==
            IF i > Len(items) THEN best
            ELSE Scan(i + 1,
                      IF CountOf(interactions, field, items[i])
                            > CountOf(interactions, field, best)
                      THEN items[i] ELSE best)
    IN  Scan(2, items[1])

\* Lines 157-159: topic_counts.
TopicOccurrences(interactions) ==
    UNION {{<<i, j>> : j \in 1..Len(interactions[i].topics)} :
             i \in 1..Len(interactions)}
TopicFrequency(interactions) ==
    [t \in {interactions[o[1]].topics[o[2]] :
                o \in TopicOccurrences(interactions)} |->
        Cardinality({o \in TopicOccurrences(interactions) :
                        interactions[o[1]].topics[o[2]] = t})]

\* Line 159 raises TypeError on a topic that cannot be a dict key.
AnalysisFails(interactions) ==
    \E o \in TopicOccurrences(interactions) :
        interactions[o[1]].topics[o[2]] = UnhashableTopic

\* _analyze_learning_patterns (lines 133-182) over interaction_history.  The
\* hour statistics, which come from the clock, are left out.
_analyze_learning_patterns(interactions) ==
    IF interactions = << >>
    THEN [patterns |-> EmptyMap, preferences |-> EmptyMap]
    ELSE [ preferred_language    |-> Preferred(interactions, "language"),
           preferred_level       |-> Preferred(interactions, "learning_level"),
           language_distribution |->
               [v \in ValuesOf(interactions, "language") |->
                   CountOf(interactions, "language", v)],
           level_distribution    |->
               [v \in ValuesOf(interactions, "learning_level") |->
                   CountOf(interactions, "learning_level", v)],
           topic_frequency       |-> TopicFrequency(interactions),
           total_interactions    |-> Len(interactions) ]

\* _identify_weak_topics (lines 184-199): accuracy < 0.6 or fewer attempts
\* than the threshold.
_identify_weak_topics(mastery) ==
    {t \in DOMAIN mastery :
        /\ mastery[t].total > 0
        /\ \/ 10 * mastery[t].correct < 6 * mastery[t].total
           \/ mastery[t].total < weak_topic_threshold}

\* _generate_personalized_response (lines 237-247): the stripped reply, or
\* the base response when the model call raises.
_generate_personalized_response(base_response, reply) ==
    IF reply.raises THEN base_response ELSE Strip(reply.text)

\* _update_learning_profile (lines 282-307).
_update_learning_profile(profile, learning_analysis, weak_topics) ==
    LET topic_frequency == Get(learning_analysis, "topic_frequency", EmptyMap)
        weak == [t \in DOMAIN profile.weak_topics \cup weak_topics |->
                    IF t \in weak_topics
                    THEN Get(profile.weak_topics, t, 0) + 1
                    ELSE profile.weak_topics[t]]
        strong == [t \in DOMAIN profile.strong_topics
                          \cup {u \in DOMAIN topic_frequency :
                                  topic_frequency[u] >= strong_topic_threshold}
                   |-> IF /\ t \in DOMAIN topic_frequency
                          /\ topic_frequency[t] >= strong_topic_threshold
                       THEN topic_frequency[t]
                       ELSE profile.strong_topics[t]]
    IN  [profile EXCEPT
           !.preferred_language =
               Get(learning_analysis, "preferred_language",
                   profile.preferred_language),
           !.preferred_level =
               Get(learning_analysis, "preferred_level",
                   profile.preferred_level),
           !.weak_topics = weak,
           !.strong_topics = strong,
           !.learning_patterns =
               [ language_distribution |->
                     Get(learning_analysis, "language_distribution", EmptyMap),
                 level_distribution |->
                     Get(learning_analysis, "level_distribution", EmptyMap),
                 total_interactions |->
                     Get(learning_analysis, "total_interactions", 0) ]]

\* Line 288 raises KeyError on a profile without its preference keys.
ProfileUpdateFails(profile) == "preferred_language" \notin DOMAIN profile

\* Lines 97-99 letting the exception through.
PersonalizeHandlerReraise(draft) == [kind |-> "raised", text |-> draft]

\* Lines 97-99: the handler around the whole call gives the draft back.
PersonalizeHandler(draft) == [kind |-> "returned", text |-> draft]

\* personalize_response(draft, user_history, language, learning_level)
\* (lines 67-99).  A step that raises ends the call in the handler; what the
\* steps before it wrote stays written.
PersonalizeResponseWith(draft, user_history, language, learning_level, reply) ==
    LET recent_interactions == LastN(user_history.items, session_memory_size)
        new == Entries(recent_interactions, language, learning_level)
        history == interaction_history \o new
        update_fails == ~user_history.is_list \/ memory_shape # "memory"
        profile == SetKey(learning_profile, "total_interactions", Len(history))
        learning_analysis == _analyze_learning_patterns(history)
        weak_topics == _identify_weak_topics(topic_mastery)
        personalized_response ==
            _generate_personalized_response(draft, reply)
        failed ==
            CASE update_fails                -> "memory_update"
              [] AnalysisFails(history)      -> "analysis"
              [] ProfileUpdateFails(profile) -> "profile_update"
              [] OTHER                       -> "none"
    IN  /\ MemoryIdle
        /\ Len(interaction_history) + Len(recent_interactions) <= MaxHistory
        /\ failed = "none" =>
              \A t \in weak_topics :
                  Get(learning_profile.weak_topics, t, 0) < MaxWeakCount
        /\ IF update_fails
           THEN UNCHANGED <<session_memory, interaction_history,
                            long_term_memory, learning_profile>>
           ELSE /\ session_memory' = TrimSession(session_memory \o new)
                /\ interaction_history' = history
                /\ long_term_memory' = LongTermOf(history)
                /\ learning_profile' =
                     IF failed = "none"
                     THEN _update_learning_profile(profile, learning_analysis,
                                                   weak_topics)
                     ELSE profile
        /\ personalize_call' =
             [ made         |-> TRUE,
               response     |-> draft,
               user_history |-> user_history,
               failed       |-> failed,
               model_called |-> failed \in {"profile_update", "none"},
               model_failed |-> /\ failed \in {"profile_update", "none"}
                                /\ reply.raises ]
        /\ personalized' =
             IF failed = "none"
             THEN [kind |-> "returned", text |-> personalized_response]
             ELSE PersonalizeHandler(draft)
        /\ UNCHANGED <<topic_mastery, memory_shape, exported, import_call,
                       memOtherCalls, notMemory>>

\* The model is called only when the memory update succeeded: no outcome is
\* drawn for a call that never reaches it.
PersonalizeResponse ==
    \E draft \in PersonalizeDrafts, user_history \in UserHistories,
       language \in Languages, learning_level \in PersonalizeLevels,
       reply \in ModelOutcomes :
        /\ (~user_history.is_list \/ memory_shape # "memory")
              => reply.raises
        /\ PersonalizeResponseWith(draft, user_history, language,
                                   learning_level, reply)

\* The caller takes the answer.
PersonalizeReturned ==
    /\ personalize_call.made
    /\ personalize_call' = [made |-> FALSE]
    /\ personalized' = [kind |-> "none"]
    /\ UNCHANGED <<session_memory, long_term_memory, interaction_history,
                   learning_profile, topic_mastery, memory_shape, exported,
                   import_call, memOtherCalls, notMemory>>

-----------------------------------------------------------------------------
(***************************************************************************)
(* MemoryAugmentedRAG.export_memory / import_memory                        *)
(***************************************************************************)

\* st.session_state.memory_rag while it is a dict of the five keys.
Memory ==
    [ session_memory      |-> session_memory,
      long_term_memory    |-> long_term_memory,
      learning_profile    |-> learning_profile,
      topic_mastery       |-> topic_mastery,
      interaction_history |-> interaction_history ]

\* The dict _init_memory_structures builds (lines 51-65).
InitialMemory ==
    [ session_memory      |-> << >>,
      long_term_memory    |-> << >>,
      learning_profile    |->
          [ weak_topics        |-> EmptyMap,
            strong_topics      |-> EmptyMap,
            learning_patterns  |-> EmptyMap,
            preferred_language |-> "en",
            preferred_level    |-> "beginner",
            total_interactions |-> 0 ],
      topic_mastery       |-> EmptyMap,
      interaction_history |-> << >> ]

\* A JSON object is the set of its <<key, value>> members; a JSON array is a
\* sequence.  A dict becomes an object and back.
JObject(d) == {<<k, d[k]>> : k \in DOMAIN d}
PyDict(o) == [k \in {m[1] : m \in o} |-> (CHOOSE m \in o : m[1] = k)[2]]

\* The lists of memory entries and the dict of mastery records, each entry
\* and record an object.
DumpEntries(entries) == [i \in 1..Len(entries) |-> JObject(entries[i])]
LoadEntries(arr) == [i \in 1..Len(arr) |-> PyDict(arr[i])]
DumpMastery(mastery) == JObject([t \in DOMAIN mastery |-> JObject(mastery[t])])
LoadMastery(o) == [t \in DOMAIN PyDict(o) |-> PyDict(PyDict(o)[t])]

\* json.dumps(memory, indent=2, default=str) (line 412).  A JSON text is held
\* as: whether it parses, whether what it holds is a memory dict, and the
\* value.  Every value the memory holds is a string, a number, a list or a
\* string-keyed dict, so default=str is never called.
json_dumps(shape, memory) ==
    [ parses |-> TRUE,
      shape  |-> shape,
      value  |->
          IF shape = "memory"
          THEN JObject(
                 [ session_memory      |-> DumpEntries(memory.session_memory),
                   long_term_memory    |-> DumpEntries(memory.long_term_memory),
                   learning_profile    |-> JObject(memory.learning_profile),
                   topic_mastery       |-> DumpMastery(memory.topic_mastery),
                   interaction_history |->
                       DumpEntries(memory.interaction_history) ])
          ELSE {} ]

\* json.loads(memory_data) (line 417) of a text that parses.  A value that is
\* not a memory dict is kept as the shape alone.
json_loads(memory_data) ==
    IF memory_data.shape = "memory"
    THEN LET o == PyDict(memory_data.value)
         IN  [ session_memory      |-> LoadEntries(o.session_memory),
               long_term_memory    |-> LoadEntries(o.long_term_memory),
               learning_profile    |-> PyDict(o.learning_profile),
               topic_mastery       |-> LoadMastery(o.topic_mastery),
               interaction_history |-> LoadEntries(o.interaction_history) ]
    ELSE InitialMemory

\* Texts that no export produced.  Foreign ones: a text that is not JSON and
\* the JSON text "[]".  Crafted ones: a memory whose learning_profile is {},
\* a memory whose history holds an entry with an array among its topics, and
\* a memory with one wrong answer on a topic, and the memory of a user whose
\* topic was counted as weak once and has since had three right answers.
ForeignNames == {"not json", "[]"}
CraftedNames ==
    {"empty profile", "array topic", "wrong answer", "mastered topic"}
ForeignData(name) ==
    CASE name = "not json" ->
            [parses |-> FALSE, shape |-> "other", value |-> {}]
      [] name = "[]"       -> [parses |-> TRUE, shape |-> "other", value |-> {}]
      [] name = "empty profile" ->
            json_dumps("memory",
                [InitialMemory EXCEPT !.learning_profile = EmptyMap])
      [] name = "array topic" ->
            json_dumps("memory",
                [InitialMemory EXCEPT !.interaction_history =
                    << [ query            |-> <<"hello">>,
                         response         |-> <<"hello">>,
                         language         |-> "en",
                         learning_level   |-> "beginner",
                         topics           |-> <<UnhashableTopic>>,
                         interaction_type |-> "user" ] >>])
      [] name = "wrong answer" ->
            json_dumps("memory",
                [InitialMemory EXCEPT !.topic_mastery =
                    [t \in {"algebra"} |-> [correct |-> 0, total |-> 1]]])
      [] name = "mastered topic" ->
            json_dumps("memory",
                [InitialMemory EXCEPT
                    !.topic_mastery =
                        [t \in {"algebra"} |-> [correct |-> 3, total |-> 4]],
                    !.learning_profile.weak_topics =
                        [t \in {"algebra"} |-> 1]])

\* Line 418 merging instead: the history held stays in front of the imported
\* one.
ReplaceMerging(old, imported) ==
    [imported EXCEPT !.interaction_history = old.interaction_history \o @]

\* Line 418: the parsed value takes the place of the memory.
Replace(old, imported) == imported

\* export_memory() (lines 409-412).  Beside the text, the memory it was made
\* from is kept for comparison.
ExportMemory ==
    /\ MemoryIdle
    /\ exported' = [ made  |-> TRUE,
                     data  |-> json_dumps(memory_shape, Memory),
                     shape |-> memory_shape,
                     state |-> Memory ]
    /\ UNCHANGED <<session_memory, long_term_memory, interaction_history,
                   learning_profile, topic_mastery, memory_shape, import_call,
                   personalize_call, personalized, memOtherCalls, notMemory>>

\* import_memory(memory_data) (lines 414-421).
ImportMemoryWith(memory_data, from_export) ==
    LET imported_memory == Replace(Memory, json_loads(memory_data))
    IN  /\ MemoryIdle
        /\ IF memory_data.parses
           THEN /\ session_memory' = imported_memory.session_memory
                /\ long_term_memory' = imported_memory.long_term_memory
                /\ learning_profile' = imported_memory.learning_profile
                /\ topic_mastery' = imported_memory.topic_mastery
                /\ interaction_history' = imported_memory.interaction_history
                /\ memory_shape' = memory_data.shape
           ELSE UNCHANGED <<session_memory, long_term_memory,
                            learning_profile, topic_mastery,
                            interaction_history, memory_shape>>
        /\ import_call' = [ made        |-> TRUE,
                            ok          |-> memory_data.parses,
                            from_export |-> from_export,
                            replaced    |-> Memory ]
        /\ UNCHANGED <<exported, personalize_call, personalized, memOtherCalls,
                       notMemory>>

\* An earlier export is imported.
ImportExported ==
    /\ exported.made
    /\ ImportMemoryWith(exported.data, TRUE)

\* A text that holds no memory is imported.
ImportForeign ==
    \E name \in ForeignNames : ImportMemoryWith(ForeignData(name), FALSE)

\* A memory written elsewhere is imported.
ImportCrafted ==
    \E name \in CraftedNames : ImportMemoryWith(ForeignData(name), FALSE)

\* The caller goes on.
ImportReturned ==
    /\ import_call.made
    /\ import_call' = [made |-> FALSE]
    /\ UNCHANGED <<session_memory, long_term_memory, interaction_history,
                   learning_profile, topic_mastery, memory_shape, exported,
                   personalize_call, personalized, memOtherCalls, notMemory>>

NextPersonalize ==
    \/ PersonalizeResponse
    \/ PersonalizeReturned
    \/ ImportCrafted
    \/ ImportReturned

NextSnapshot ==
    \/ UpdateMemory
    \/ ExportMemory
    \/ ImportExported
    \/ ImportForeign
    \/ ImportReturned

\* C17: an import_memory whose data parses makes the memory exactly what the
\* data holds, keeping nothing of the memory it replaces, so that importing
\* what export_memory returned brings back the memory as it was at that
\* export, whatever was done in between; an import whose data does not parse
\* leaves the memory as it is.
C17_ImportReplacesWholesale ==
    [][ /\ \A name \in ForeignNames \cup CraftedNames :
              ImportMemoryWith(ForeignData(name), FALSE) =>
                 IF ForeignData(name).parses
                 THEN /\ memory_shape' = ForeignData(name).shape
                      /\ Memory' = json_loads(ForeignData(name))
                 ELSE UNCHANGED <<session_memory, long_term_memory,
                                  learning_profile, topic_mastery,
                                  interaction_history, memory_shape>>
        /\ ImportExported =>
              /\ memory_shape' = exported.shape
              /\ Memory' = IF exported.shape = "memory" THEN exported.state
                           ELSE InitialMemory ]_vars

\* An export of a memory with entries was imported after more entries had
\* been added, and the memory is again the one exported.
C17_Witness ==
    /\ import_call.made /\ import_call.ok /\ import_call.from_export
    /\ exported.shape = "memory"
    /\ Memory = exported.state
    /\ Len(import_call.replaced.interaction_history)
          > Len(interaction_history)
    /\ session_memory # import_call.replaced.session_memory
    /\ Len(interaction_history) > 0

\* C18: personalize_response never raises, and whenever the model call or one
\* of its steps (memory update, analysis, profile update) fails it returns
\* the draft it was given, unchanged.
C18_FailureReturnsDraft ==
    personalize_call.made =>
        /\ personalized.kind = "returned"
        /\ (personalize_call.failed # "none" \/ personalize_call.model_failed)
              => personalized.text = personalize_call.response

\* A call whose profile update failed after the model had answered: it gave
\* back the padded draft, not the model's text.
C18_Witness ==
    /\ personalize_call.made
    /\ personalize_call.failed = "profile_update"
    /\ personalize_call.model_called /\ ~personalize_call.model_failed
    /\ personalized = [kind |-> "returned", text |-> Text(4, 1, {})]

\* A personalize_response call in which nothing raised has just ended.
PersonalizeSucceeded ==
    personalize_call.made /\ personalize_call.failed = "none"

\* C22: after a call that ran to its end over a history that is not empty,
\* the preferred language and the preferred level of the profile are values
\* no other value occurs more often than in the analysed turns, and of the
\* values that occur as often they are the ones seen first.
C22_PreferredFirstOfMostFrequent ==
    (PersonalizeSucceeded /\ interaction_history # << >>) =>
        \A f \in {<<"language", learning_profile.preferred_language>>,
                  <<"learning_level", learning_profile.preferred_level>>} :
            /\ f[2] \in ValuesOf(interaction_history, f[1])
            /\ \A w \in ValuesOf(interaction_history, f[1]) \ {f[2]} :
                  \/ CountOf(interaction_history, f[1], f[2])
                        > CountOf(interaction_history, f[1], w)
                  \/ /\ CountOf(interaction_history, f[1], f[2])
                          = CountOf(interaction_history, f[1], w)
                     /\ FirstAt(interaction_history, f[1], f[2])
                          < FirstAt(interaction_history, f[1], w)

\* Amharic and English turns tie, Amharic came first and is preferred; the
\* levels tie as well and the first one seen, not the default, is preferred.
C22_Witness ==
    /\ PersonalizeSucceeded
    /\ Len(interaction_history) > 1
    /\ interaction_history[1].language = "am"
    /\ CountOf(interaction_history, "language", "am")
          = CountOf(interaction_history, "language", "en")
    /\ learning_profile.preferred_language = "am"
    /\ interaction_history[1].learning_level = "advanced"
    /\ CountOf(interaction_history, "learning_level", "advanced")
          = CountOf(interaction_history, "learning_level", "beginner")
    /\ learning_profile.preferred_level = "advanced"

\* C23: after a call that ran to its end, what the profile holds of the
\* analysis (the language and level counts, the preferences and the number
\* of interactions) is the analysis of the turns of long_term_memory alone.
C23_AnalysisOverLongTermWindow ==
    (PersonalizeSucceeded /\ long_term_memory # << >>) =>
        LET window == _analyze_learning_patterns(long_term_memory)
        IN  /\ learning_profile.learning_patterns.total_interactions
                  = window.total_interactions
            /\ learning_profile.learning_patterns.language_distribution
                  = window.language_distribution
            /\ learning_profile.learning_patterns.level_distribution
                  = window.level_distribution
            /\ learning_profile.preferred_language = window.preferred_language
            /\ learning_profile.preferred_level = window.preferred_level

\* The turns a list of memory entries was made from (lines 108-116: the role
\* is kept as interaction_type, the content as query).
TurnsOf(entries) ==
    [i \in 1..Len(entries) |->
        [role |-> entries[i].interaction_type, content |-> entries[i].query]]

\* s is the beginning of t.
IsPrefix(s, t) == Len(s) <= Len(t) /\ \A i \in 1..Len(s) : s[i] = t[i]

\* C25: a call that runs to its end and is given a conversation whose first
\* turns are the turns recorded so far leaves interaction_history holding
\* the turns of that conversation, each one once, and session_memory its
\* last turns.
C25_TurnsRecordedOnce ==
    [][(/\ ~personalize_call.made
        /\ personalize_call'.made
        /\ personalize_call'.failed = "none"
        /\ IsPrefix(TurnsOf(interaction_history),
                    personalize_call'.user_history.items))
          => /\ TurnsOf(interaction_history')
                  = personalize_call'.user_history.items
             /\ TurnsOf(session_memory')
                  = LastN(personalize_call'.user_history.items,
                          session_memory_size)]_vars

\* C28: after a call that ran to its end, every topic of the profile's
\* weak_topics is weak under the topic_mastery of that moment.
C28_WeakTopicsAreCurrent ==
    PersonalizeSucceeded =>
        DOMAIN learning_profile.weak_topics
            \subseteq _identify_weak_topics(topic_mastery)

\* C21: after a call that ran to its end, the topics recorded as strong are
\* the topics of topic_mastery whose total attempts reach the strong
\* threshold; the weak topics counted by the call are those of topic_mastery
\* with accuracy below 0.6 or fewer attempts than the weak threshold.
C21_StrongByAttempts ==
    PersonalizeSucceeded =>
        /\ DOMAIN learning_profile.strong_topics =
               {t \in DOMAIN topic_mastery :
                   topic_mastery[t].total >= strong_topic_threshold}
        /\ \A t \in DOMAIN topic_mastery :
               (\/ 10 * topic_mastery[t].correct < 6 * topic_mastery[t].total
                \/ topic_mastery[t].total < weak_topic_threshold)
                   => t \in DOMAIN learning_profile.weak_topics

-----------------------------------------------------------------------------
(***************************************************************************)
(* MemoryAugmentedRAG.clear_memory                                         *)
(***************************************************************************)

\* The memory_type arguments: the three the method knows and another one.
MemoryTypes == {"session", "long_term", "all", "profile"}

\* _init_memory_structures() (lines 48-65): the initial dict is stored only
\* when the session state has no "memory_rag" key.
_init_memory_structures(has_key, memory) ==
    IF ~has_key THEN InitialMemory ELSE memory

\* clear_memory(memory_type) (lines 397-407).  Line 399 has read the
\* "memory_rag" key, so the key is there when line 407 runs; an item
\* assignment on a value that is not a dict raises.
ClearMemoryWith(memory_type) ==
    LET raises == /\ memory_shape # "memory"
                  /\ memory_type \in {"session", "long_term"}
        after ==
            CASE raises -> Memory
              [] memory_type = "session" ->
                    [Memory EXCEPT !.session_memory = << >>]
              [] memory_type = "long_term" ->
                    [Memory EXCEPT !.long_term_memory = << >>,
                                   !.interaction_history = << >>]
              [] memory_type = "all" -> _init_memory_structures(TRUE, Memory)
              [] OTHER -> Memory
    IN  /\ MemoryIdle
        /\ session_memory' = after.session_memory
        /\ long_term_memory' = after.long_term_memory
        /\ interaction_history' = after.interaction_history
        /\ learning_profile' = after.learning_profile
        /\ topic_mastery' = after.topic_mastery
        /\ clear_call' = [ made        |-> TRUE,
                           memory_type |-> memory_type,
                           raised      |-> raises,
                           found       |-> Memory ]
        /\ UNCHANGED <<memory_shape, exported, import_call, personalize_call,
                       personalized, update_threads, notMemory>>

ClearMemory == \E memory_type \in MemoryTypes : ClearMemoryWith(memory_type)

\* The caller goes on.
ClearReturned ==
    /\ clear_call.made
    /\ clear_call' = [made |-> FALSE]
    /\ UNCHANGED <<session_memory, long_term_memory, interaction_history,
                   learning_profile, topic_mastery, memory_shape, exported,
                   import_call, personalize_call, personalized, update_threads,
                   notMemory>>

NextClear == UpdateMemory \/ ClearMemory \/ ClearReturned

\* C26: clear_memory("session") empties session_memory and changes nothing
\* else; clear_memory("long_term") empties long_term_memory and
\* interaction_history and changes nothing else; clear_memory("all") leaves
\* the memory as it is right after construction.
C26_ClearByType ==
    (clear_call.made /\ ~clear_call.raised) =>
        CASE clear_call.memory_type = "session" ->
                Memory = [clear_call.found EXCEPT !.session_memory = << >>]
          [] clear_call.memory_type = "long_term" ->
                Memory = [clear_call.found EXCEPT
                             !.long_term_memory = << >>,
                             !.interaction_history = << >>]
          [] clear_call.memory_type = "all" -> Memory = InitialMemory
          [] OTHER -> TRUE

-----------------------------------------------------------------------------
(***************************************************************************)
(* Two _update_memory calls on the same memory at the same time.  The      *)
(* method takes no lock (lines 101-131): a thread may be suspended between *)
(* any two of its reads and writes of the shared dict.                     *)
(***************************************************************************)

UpdateThreads == DOMAIN update_threads

\* Thread t moves to pc with these local values.
ThreadAt(t, pc, pending, slice) ==
    [update_threads EXCEPT
        ![t] = [pc |-> pc, pending |-> pending, slice |-> slice]]

\* The turns the running calls have still to append.
PendingTurns ==
    LET RECURSIVE Sum(_)
        Sum(ts) == IF ts = {} THEN 0
                   ELSE LET t == CHOOSE u \in ts : TRUE
                        IN  Len(update_threads[t].pending) + Sum(ts \ {t})
    IN  Sum(UpdateThreads)

\* Lines 103-105: the call starts and takes the last turns of its argument.
BeginUpdateWith(t, user_history, language, learning_level) ==
    LET recent_interactions == LastN(user_history, session_memory_size)
        new == Entries(recent_interactions, language, learning_level)
    IN  /\ update_threads[t].pc = "idle"
        /\ Len(interaction_history) + PendingTurns + Len(new) <= MaxHistory
        /\ update_threads' =
             ThreadAt(t, IF new = << >> THEN "trim" ELSE "append_session",
                      new, << >>)
        /\ UNCHANGED <<session_memory, long_term_memory, interaction_history,
                       learning_profile, topic_mastery, memory_shape, exported,
                       import_call, personalize_call, personalized,
                       clear_call, notMemory>>

\* The conversations the overlapping calls are given: a question, and a
\* question with its answer.
OverlappingHistories ==
    { << [role |-> "user", content |-> <<"smart", "algebra">>] >>,
      << [role |-> "user", content |-> <<"smart", "algebra">>],
         [role |-> "assistant", content |-> <<"hello">>] >> }

BeginUpdate ==
    \E t \in UpdateThreads, user_history \in OverlappingHistories,
       language \in Languages, learning_level \in Levels :
        BeginUpdateWith(t, user_history, language, learning_level)

\* Line 119: memory["session_memory"].append(memory_entry).
AppendSession ==
    \E t \in UpdateThreads :
        /\ update_threads[t].pc = "append_session"
        /\ session_memory' =
             Append(session_memory, Head(update_threads[t].pending))
        /\ update_threads' =
             ThreadAt(t, "append_history", update_threads[t].pending, << >>)
        /\ UNCHANGED <<long_term_memory, interaction_history, learning_profile,
                       topic_mastery, memory_shape, exported, import_call,
                       personalize_call, personalized, clear_call, notMemory>>

\* Line 120: memory["interaction_history"].append(memory_entry), and on to
\* the next turn of the loop.
AppendHistory ==
    \E t \in UpdateThreads :
        LET rest == Tail(update_threads[t].pending)
        IN  /\ update_threads[t].pc = "append_history"
            /\ interaction_history' =
                 Append(interaction_history, Head(update_threads[t].pending))
            /\ update_threads' =
                 ThreadAt(t, IF rest = << >> THEN "trim" ELSE "append_session",
                          rest, << >>)
            /\ UNCHANGED <<session_memory, long_term_memory, learning_profile,
                           topic_mastery, memory_shape, exported, import_call,
                           personalize_call, personalized, clear_call, notMemory>>

\* Lines 123-124, the right-hand side: the length test and the slice.
TrimSlice ==
    \E t \in UpdateThreads :
        /\ update_threads[t].pc = "trim"
        /\ update_threads' =
             IF Len(session_memory) > session_memory_size
             THEN ThreadAt(t, "trim_store", << >>,
                           LastN(session_memory, session_memory_size))
             ELSE ThreadAt(t, "long_term_slice", << >>, << >>)
        /\ UNCHANGED <<session_memory, long_term_memory, interaction_history,
                       learning_profile, topic_mastery, memory_shape, exported,
                       import_call, personalize_call, personalized, clear_call,
                       notMemory>>

\* Line 124, the assignment to memory["session_memory"].
TrimStore ==
    \E t \in UpdateThreads :
        /\ update_threads[t].pc = "trim_store"
        /\ session_memory' = update_threads[t].slice
        /\ update_threads' = ThreadAt(t, "long_term_slice", << >>, << >>)
        /\ UNCHANGED <<long_term_memory, interaction_history, learning_profile,
                       topic_mastery, memory_shape, exported, import_call,
                       personalize_call, personalized, clear_call, notMemory>>

\* Line 127, the right-hand side.
LongTermSlice ==
    \E t \in UpdateThreads :
        /\ update_threads[t].pc = "long_term_slice"
        /\ update_threads' =
             ThreadAt(t, "long_term_store", << >>, LongTermOf(interaction_history))
        /\ UNCHANGED <<session_memory, long_term_memory, interaction_history,
                       learning_profile, topic_mastery, memory_shape, exported,
                       import_call, personalize_call, personalized, clear_call,
                       notMemory>>

\* Line 127, the assignment to memory["long_term_memory"].
LongTermStore ==
    \E t \in UpdateThreads :
        /\ update_threads[t].pc = "long_term_store"
        /\ long_term_memory' = update_threads[t].slice
        /\ update_threads' = ThreadAt(t, "total", << >>, << >>)
        /\ UNCHANGED <<session_memory, interaction_history, learning_profile,
                       topic_mastery, memory_shape, exported, import_call,
                       personalize_call, personalized, clear_call, notMemory>>

\* Lines 130-131, and the call returns.
StoreTotal ==
    \E t \in UpdateThreads :
        /\ update_threads[t].pc = "total"
        /\ learning_profile' =
             SetKey(learning_profile, "total_interactions",
                    Len(interaction_history))
        /\ update_threads' = ThreadAt(t, "idle", << >>, << >>)
        /\ UNCHANGED <<session_memory, long_term_memory, interaction_history,
                       topic_mastery, memory_shape, exported, import_call,
                       personalize_call, personalized, clear_call, notMemory>>

NextConcurrent ==
    \/ BeginUpdate
    \/ AppendSession \/ AppendHistory
    \/ TrimSlice \/ TrimStore
    \/ LongTermSlice \/ LongTermStore
    \/ StoreTotal

\* No _update_memory call is running.
NoUpdateRunning == \A t \in UpdateThreads : update_threads[t].pc = "idle"

\* C24: whenever the calls started so far have all returned, however their
\* steps were interleaved, the memory is what calls run one after the other
\* leave: session_memory holds the last session_memory_size recorded turns
\* and long_term_memory the last long_term_memory_size ones, in the order
\* they were recorded, and the profile counts them all.
C24_OverlapIsSerial ==
    NoUpdateRunning =>
        /\ session_memory = LastN(interaction_history, session_memory_size)
        /\ long_term_memory = LastN(interaction_history, long_term_memory_size)
        /\ learning_profile.total_interactions = Len(interaction_history)

-----------------------------------------------------------------------------
(***************************************************************************)
(* SelfReflectiveRAG                                                       *)
(***************************************************************************)

\* 1.0 in score units: every score of the code is a multiple of 1/50
\* (safety: 1/5, accuracy: 1/10, quality: a sum of five integers / 50).
ScoreUnit == 50

\* self.safety_patterns (reflective_rag.py:60-69).
inappropriate_patterns ==
    { "violence", "harmful", "dangerous", "illegal",
      "discriminatory", "offensive", "inappropriate" }
misleading_patterns ==
    { "always", "never", "all", "none", "guaranteed",
      "definitely", "certainly", "impossible" }

\* The marker words of _final_validation (lines 306, 310).
educational_words == {"explain", "understand", "learn", "study", "example"}
encouraging_words == {"good", "great", "excellent", "well done", "keep up"}

\* The length window of _final_validation (line 299).
MinLength == 50
MaxLength == 2000

\* The five rubric criteria of _parse_quality_scores (lines 325-331).
Criteria ==
    {"accuracy", "clarity", "completeness", "appropriateness", "engagement"}

\* The largest number explored in front of "/10" in a reply ("\d+" takes any).
MaxParsed == 11

CleanFeatures == {"learn", "great"}

\* The drafts explored: the four lengths around the window on a clean text,
\* texts with 0..6 safety issues and with either marker missing, and None.
Drafts ==
    {Text(l, 0, CleanFeatures) :
        l \in {MinLength - 1, MinLength, MaxLength, MaxLength + 1}}
    \cup {Text(MinLength, 0, h) :
            h \in { CleanFeatures \cup {"always"},
                    CleanFeatures \cup {"always", "never"},
                    CleanFeatures \cup {"harmful"},
                    {"learn"}, {"great"},
                    {"violence", "harmful", "dangerous",
                     "always", "never", "all"} }}
    \cup {NoText}

\* The texts the repair call may answer with.
RepairReplies ==
    {Text(MinLength + p, p, CleanFeatures) : p \in 0..MaxPad}
    \cup {Text(MinLength, 1, CleanFeatures),
          Text(MinLength, 0, {"always", "never", "harmful"})}

\* What "<CRITERION>:\s*(\d+)/10" finds in a reply: no match ({}) or the
\* number matched ({n}).
QualityMatches == {{}} \cup {{n} : n \in {0, 7, MaxParsed}}
AccuracyMatches == {{}} \cup {{n} : n \in {0, 6, 7, 10, MaxParsed}}

\* The issues listed after "Issues:" in a reply (none when there is no such
\* section).
IssueLists == {<< >>, <<"unclear">>}

\* The replies of the assessment calls, and a failed call.
QualityReplies == [scores : [Criteria -> QualityMatches], issues : IssueLists]
AccuracyReplies == [score : AccuracyMatches, issues : IssueLists]
CallFailed == [failed |-> TRUE]

Max0(x) == IF x > 0 THEN x ELSE 0

\* _check_safety (lines 127-145): one issue per pattern found;
\* safety_score = max(0, 1 - 0.2 * len(issues)).
SafetyIssues(text) ==
    (inappropriate_patterns \cup misleading_patterns) \cap text.has
SafetyScore(text) ==
    Max0(ScoreUnit - (Cardinality(SafetyIssues(text)) * ScoreUnit) \div 5)

\* Lines 335-338 with the default 0.
CriterionScoreDefaultZero(match) ==
    IF match = {} THEN 0 ELSE CHOOSE n \in match : TRUE

\* Lines 335-338: the matched number, 5.0 when there is no match.
CriterionScore(match) ==
    IF match = {} THEN 5 ELSE CHOOSE n \in match : TRUE

\* _parse_quality_scores (lines 320-340).
_parse_quality_scores(assessment) ==
    [c \in Criteria |-> CriterionScore(assessment.scores[c])]

\* Line 192: sum(scores.values()) / len(scores) / 10.
QualityScoreOf(scores) ==
    ((scores["accuracy"] + scores["clarity"] + scores["completeness"]
      + scores["appropriateness"] + scores["engagement"]) * ScoreUnit)
    \div (Cardinality(Criteria) * 10)

\* _parse_accuracy_score (lines 354-359): match / 10, 0.5 when no match.
_parse_accuracy_score(validation) ==
    IF validation.score = {} THEN ScoreUnit \div 2
    ELSE ((CHOOSE n \in validation.score : TRUE) * ScoreUnit) \div 10

\* Line 97 with <= for <.
NeedsImprovementInclusive(s, q, a) ==
    \/ 10 * s <= 8 * ScoreUnit
    \/ 10 * q <= 7 * ScoreUnit
    \/ 10 * a <= 7 * ScoreUnit

\* Line 97: safety_score < 0.8 or quality_score < 0.7 or accuracy_score < 0.7.
NeedsImprovement(s, q, a) ==
    \/ 10 * s < 8 * ScoreUnit
    \/ 10 * q < 7 * ScoreUnit
    \/ 10 * a < 7 * ScoreUnit

\* _final_validation (lines 294-318).
FinalChecks(text) ==
    [ length_appropriate       |-> MinLength <= text.len /\ text.len <= MaxLength,
      no_inappropriate_content |-> inappropriate_patterns \cap text.has = {},
      has_educational_value    |-> educational_words \cap text.has # {},
      encouraging_tone         |-> encouraging_words \cap text.has # {} ]

_final_validation(text) ==
    LET checks == FinalChecks(text)
    IN  [ passed |-> \A c \in DOMAIN checks : checks[c],
          checks |-> checks,
          score  |-> Cardinality({c \in DOMAIN checks : checks[c]}) ]

\* Line 106 handed the draft.
FinalCheckOnDraft(draft, improved) == draft

\* Line 106: the final validation is of improved_response.
FinalCheckSubject(draft, improved) == improved

\* Lines 109-119; overall_score is held in units of 1/(3*ScoreUnit).
CompileMetrics(final) ==
    [ safety_score      |-> safety_score,
      quality_score     |-> quality_score,
      accuracy_score    |-> accuracy_score,
      overall_score     |-> safety_score + quality_score + accuracy_score,
      safety_issues     |-> safety_issues,
      quality_issues    |-> quality_issues,
      accuracy_issues   |-> accuracy_issues,
      improvements_made |-> improved_response # response,
      final_validation  |-> final ]

\* The outer handler re-raising.
OuterHandlerReraise(draft) == [kind |-> "raised"]

\* Lines 123-125: except Exception: return response, {"error": str(e)}.
OuterHandler(draft) ==
    [kind |-> "returned", text |-> draft, metrics |-> [error |-> "exception"]]

\* After the repair, score the text again.
StageAfterRepairRetry == "SAFETY_CHECK"

\* Lines 98-106: the repair is followed by the final validation.
StageAfterRepair == "FINAL_CHECK"

NoOutcome == [kind |-> "none"]

InitValidator ==
    /\ stage = "IDLE"
    /\ response = NoText
    /\ safety_score = 0 /\ safety_issues = {}
    /\ quality_score = 0 /\ quality_issues = << >>
    /\ accuracy_score = 0 /\ accuracy_issues = << >>
    /\ improved_response = NoText
    /\ outcome = NoOutcome
    /\ llm_reply = CallFailed
    /\ repair_calls = 0
    /\ failures = {}
    /\ trace = << >>

\* validate_response(response, ...) is called (line 71).
ValidateResponse ==
    /\ UNCHANGED notValidator
    /\ stage = "IDLE"
    /\ \E draft \in Drafts : response' = draft
    /\ stage' = "SAFETY_CHECK"
    /\ UNCHANGED <<safety_score, safety_issues, quality_score, quality_issues,
                   accuracy_score, accuracy_issues, improved_response, outcome,
                   llm_reply, repair_calls, failures, trace>>

\* Step 1 (line 84).  response.lower() raises on a value that is no string;
\* the outer handler returns.
CheckSafety ==
    /\ UNCHANGED notValidator
    /\ stage = "SAFETY_CHECK"
    /\ trace' = Append(trace, "SAFETY_CHECK")
    /\ IF response.isStr
       THEN /\ safety_score' = SafetyScore(response)
            /\ safety_issues' = SafetyIssues(response)
            /\ stage' = "QUALITY_CHECK"
            /\ UNCHANGED <<outcome, failures>>
       ELSE /\ outcome' = OuterHandler(response)
            /\ failures' = failures \cup {"exception"}
            /\ stage' = "DONE"
            /\ UNCHANGED <<safety_score, safety_issues>>
    /\ UNCHANGED <<response, quality_score, quality_issues, accuracy_score,
                   accuracy_issues, improved_response, llm_reply, repair_calls>>

\* Step 2, _assess_quality (lines 147-198).
AssessQuality ==
    /\ UNCHANGED notValidator
    /\ stage = "QUALITY_CHECK"
    /\ trace' = Append(trace, "QUALITY_CHECK")
    /\ \E reply \in QualityReplies \cup {CallFailed} :
        /\ llm_reply' = reply
        /\ IF reply = CallFailed
           THEN /\ quality_score' = ScoreUnit \div 2
                /\ quality_issues' = <<"Quality assessment failed">>
                /\ failures' = failures \cup {"quality"}
           ELSE /\ quality_score' = QualityScoreOf(_parse_quality_scores(reply))
                /\ quality_issues' = reply.issues
                /\ UNCHANGED failures
    /\ stage' = "ACCURACY_CHECK"
    /\ UNCHANGED <<response, safety_score, safety_issues, accuracy_score,
                   accuracy_issues, improved_response, outcome, repair_calls>>

\* Step 3, _validate_accuracy (lines 200-237).
ValidateAccuracy ==
    /\ UNCHANGED notValidator
    /\ stage = "ACCURACY_CHECK"
    /\ trace' = Append(trace, "ACCURACY_CHECK")
    /\ \E reply \in AccuracyReplies \cup {CallFailed} :
        /\ llm_reply' = reply
        /\ IF reply = CallFailed
           THEN /\ accuracy_score' = ScoreUnit \div 2
                /\ accuracy_issues' = <<"Accuracy validation failed">>
                /\ failures' = failures \cup {"accuracy"}
           ELSE /\ accuracy_score' = _parse_accuracy_score(reply)
                /\ accuracy_issues' = reply.issues
                /\ UNCHANGED failures
    /\ stage' = "DECIDE"
    /\ UNCHANGED <<response, safety_score, safety_issues, quality_score,
                   quality_issues, improved_response, outcome, repair_calls>>

\* Step 4, the repair branch: _generate_improved_response (lines 97-101,
\* 239-292); a failed call gives the original back.
GenerateImprovedResponse ==
    /\ UNCHANGED notValidator
    /\ stage = "DECIDE"
    /\ NeedsImprovement(safety_score, quality_score, accuracy_score)
    /\ trace' = Append(trace, "REPAIR")
    /\ repair_calls' = repair_calls + 1
    /\ \E reply \in RepairReplies \cup {CallFailed} :
        /\ llm_reply' = reply
        /\ IF reply = CallFailed
           THEN /\ improved_response' = response
                /\ failures' = failures \cup {"repair"}
           ELSE /\ improved_response' = Strip(reply)
                /\ UNCHANGED failures
    /\ stage' = StageAfterRepair
    /\ UNCHANGED <<response, safety_score, safety_issues, quality_score,
                   quality_issues, accuracy_score, accuracy_issues, outcome>>

\* Step 4, the other branch (lines 102-103).
KeepResponse ==
    /\ UNCHANGED notValidator
    /\ stage = "DECIDE"
    /\ ~NeedsImprovement(safety_score, quality_score, accuracy_score)
    /\ trace' = Append(trace, "PASS")
    /\ improved_response' = response
    /\ stage' = "FINAL_CHECK"
    /\ UNCHANGED <<response, safety_score, safety_issues, quality_score,
                   quality_issues, accuracy_score, accuracy_issues, outcome,
                   llm_reply, repair_calls, failures>>

\* Step 5 and the return (lines 105-121).
FinalValidation ==
    /\ UNCHANGED notValidator
    /\ stage = "FINAL_CHECK"
    /\ trace' = Append(trace, "FINAL_CHECK")
    /\ outcome' =
         [ kind    |-> "returned",
           text    |-> improved_response,
           metrics |-> CompileMetrics(
                _final_validation(
                    FinalCheckSubject(response, improved_response))) ]
    /\ stage' = "DONE"
    /\ UNCHANGED <<response, safety_score, safety_issues, quality_score,
                   quality_issues, accuracy_score, accuracy_issues,
                   improved_response, llm_reply, repair_calls, failures>>

\* The caller has the result; the call's locals are gone.
ValidateReturned ==
    /\ UNCHANGED notValidator
    /\ stage = "DONE"
    /\ stage' = "IDLE"
    /\ response' = NoText
    /\ safety_score' = 0 /\ safety_issues' = {}
    /\ quality_score' = 0 /\ quality_issues' = << >>
    /\ accuracy_score' = 0 /\ accuracy_issues' = << >>
    /\ improved_response' = NoText
    /\ outcome' = NoOutcome
    /\ llm_reply' = CallFailed
    /\ repair_calls' = 0
    /\ failures' = {}
    /\ trace' = << >>

ValidatorStep ==
    \/ CheckSafety
    \/ AssessQuality
    \/ ValidateAccuracy
    \/ GenerateImprovedResponse
    \/ KeepResponse
    \/ FinalValidation

NextValidator == ValidateResponse \/ ValidatorStep \/ ValidateReturned

(***************************************************************************)
(* Claims about validate_response.                                         *)
(***************************************************************************)

\* The call has returned a report with scores (not the error report).
Reported == stage = "DONE" /\ "exception" \notin failures

\* The place of a step in DRAFT -> SAFETY_CHECK -> QUALITY_CHECK ->
\* ACCURACY_CHECK -> (PASS | REPAIR) -> FINAL_CHECK -> DONE.
StageRank(st) ==
    CASE st = "SAFETY_CHECK"      -> 1
      [] st = "QUALITY_CHECK"     -> 2
      [] st = "ACCURACY_CHECK"    -> 3
      [] st \in {"REPAIR", "PASS"} -> 4
      [] st = "FINAL_CHECK"       -> 5

Steps(tr) == {tr[i] : i \in DOMAIN tr}

\* The text passes the four structural checks, the second being "none of the
\* given patterns occurs".
StructurallySound(text, patterns) ==
    /\ MinLength <= text.len /\ text.len <= MaxLength
    /\ patterns \cap text.has = {}
    /\ educational_words \cap text.has # {}
    /\ encouraging_words \cap text.has # {}

\* C3: within one validate_response call the repair step runs at most once and
\* no step runs again after it (no re-score-and-retry loop); a call that got
\* to the repair decision runs the final check last and returns, and a call in
\* progress always has a next step.
C3_RepairAtMostOnce ==
    /\ repair_calls <= 1
    /\ Cardinality({i \in DOMAIN trace : trace[i] = "REPAIR"}) = repair_calls
    /\ \A i, j \in DOMAIN trace :
          i < j => StageRank(trace[i]) < StageRank(trace[j])
    /\ (stage = "DONE" /\ Steps(trace) \cap {"REPAIR", "PASS"} # {})
          => /\ trace[Len(trace)] = "FINAL_CHECK"
             /\ outcome.kind = "returned"
    /\ stage \notin {"IDLE", "DONE"} => ENABLED ValidatorStep

\* A call that repaired once and returned a text that still scores below the
\* safety threshold.
C3_Witness ==
    /\ stage = "DONE"
    /\ repair_calls = 1
    /\ "repair" \notin failures
    /\ outcome.kind = "returned"
    /\ 10 * SafetyScore(outcome.text) < 8 * ScoreUnit

\* C4: the repair step is entered if and only if safety_score < 0.8 or
\* quality_score < 0.7 or accuracy_score < 0.7; when all three scores meet
\* their thresholds the draft goes to the final check unmodified and no repair
\* call is made.
C4_RepairIffBelowThreshold ==
    (stage \in {"FINAL_CHECK", "DONE"} /\ "exception" \notin failures) =>
        LET below == \/ 10 * safety_score < 8 * ScoreUnit
                     \/ 10 * quality_score < 7 * ScoreUnit
                     \/ 10 * accuracy_score < 7 * ScoreUnit
        IN  /\ ("REPAIR" \in Steps(trace)) <=> below
            /\ (repair_calls = 1) <=> below
            /\ ~below => /\ repair_calls = 0
                         /\ improved_response = response
                         /\ stage = "DONE" =>
                              /\ outcome.text = response
                              /\ outcome.metrics.final_validation
                                   = _final_validation(response)

\* A call whose three scores sit exactly on the thresholds returned without a
\* repair.
C4_Witness ==
    /\ stage = "DONE"
    /\ 10 * safety_score = 8 * ScoreUnit
    /\ 10 * quality_score = 7 * ScoreUnit
    /\ 10 * accuracy_score = 7 * ScoreUnit
    /\ repair_calls = 0
    /\ outcome.text = response

\* C5: the report of validate_response has safety_score, quality_score and
\* accuracy_score each in [0,1] and an overall_score that is their mean and
\* lies in [0,1] (overall_score is held times 3).
C5_ScoresInUnitInterval ==
    Reported =>
        LET m == outcome.metrics
        IN  /\ 0 <= m.safety_score /\ m.safety_score <= ScoreUnit
            /\ 0 <= m.quality_score /\ m.quality_score <= ScoreUnit
            /\ 0 <= m.accuracy_score /\ m.accuracy_score <= ScoreUnit
            /\ m.overall_score
                 = m.safety_score + m.quality_score + m.accuracy_score
            /\ 0 <= m.overall_score /\ m.overall_score <= 3 * ScoreUnit

\* C6 as claimed: validate_response never raises, and whenever a sub-check
\* failed (the quality, accuracy or repair call errored, or a step threw) it
\* returns the unmodified draft with a report.
C6_FailureReturnsDraft ==
    /\ outcome.kind # "raised"
    /\ (stage = "DONE" /\ failures # {})
          => outcome.kind = "returned" /\ outcome.text = response

\* C6 as amended: validate_response never raises and always returns a text
\* with a report.  When a step throws or the repair call errors the text is
\* the unmodified draft (with the error-only report in the first case).  When
\* the quality or accuracy call errors, that score is 0.5, which is below its
\* threshold, so the repair step runs; the returned text differs from the
\* draft only by being the stripped reply of a repair call that succeeded.
C6_NeverRaisesAndDegrades ==
    /\ outcome.kind # "raised"
    /\ stage = "DONE" =>
        /\ outcome.kind = "returned"
        /\ ("exception" \in failures \/ "repair" \in failures)
              => outcome.text = response
        /\ "exception" \in failures => DOMAIN outcome.metrics = {"error"}
        /\ "exception" \notin failures
              => "final_validation" \in DOMAIN outcome.metrics
        /\ "quality" \in failures
              => 2 * quality_score = ScoreUnit /\ repair_calls = 1
        /\ "accuracy" \in failures
              => 2 * accuracy_score = ScoreUnit /\ repair_calls = 1
        /\ outcome.text # response
              => /\ repair_calls = 1
                 /\ "repair" \notin failures
                 /\ outcome.text = Strip(llm_reply)

\* The quality call failed and the call returned a text that is not the draft.
C6_Witness ==
    /\ stage = "DONE"
    /\ "quality" \in failures
    /\ outcome.kind = "returned"
    /\ outcome.text # response

\* C7: a rubric sub-score missing from (or unparseable in) the assessment
\* counts as 5 of 10, a missing fact-check score as 0.5, a failed or wholly
\* unparseable assessment gives 0.5, and the call goes on to its next step.
\* (llm_reply is the reply that the step just run has parsed.)
C7_MissingScoresAreMidpoint ==
    /\ stage = "ACCURACY_CHECK" =>
          IF llm_reply = CallFailed
          THEN 2 * quality_score = ScoreUnit
          ELSE LET given(c) == IF llm_reply.scores[c] = {} THEN 5
                               ELSE CHOOSE n \in llm_reply.scores[c] : TRUE
               IN  /\ 50 * quality_score
                        = ScoreUnit * ( given("accuracy") + given("clarity")
                                        + given("completeness")
                                        + given("appropriateness")
                                        + given("engagement") )
                   /\ (\A c \in Criteria : llm_reply.scores[c] = {})
                        => 2 * quality_score = ScoreUnit
    /\ stage = "DECIDE" =>
          IF llm_reply = CallFailed \/ llm_reply.score = {}
          THEN 2 * accuracy_score = ScoreUnit
          ELSE 10 * accuracy_score
                 = ScoreUnit * (CHOOSE n \in llm_reply.score : TRUE)
    /\ stage \in {"ACCURACY_CHECK", "DECIDE"}
          => "exception" \notin failures /\ ENABLED ValidatorStep
    /\ (stage = "DONE" /\ "QUALITY_CHECK" \in Steps(trace))
          => trace[Len(trace)] = "FINAL_CHECK" /\ outcome.kind = "returned"

\* A quality assessment with some sub-scores given and some missing has just
\* been parsed.
C7_Witness ==
    /\ stage = "ACCURACY_CHECK"
    /\ llm_reply # CallFailed
    /\ \E c \in Criteria : llm_reply.scores[c] = {}
    /\ \E c \in Criteria : llm_reply.scores[c] # {}

\* C8 as claimed: the final check is of the returned text and passes exactly
\* when the length is in [50,2000], no pattern scanned by the safety check
\* occurs, and an educational and an encouragement marker occur.
C8_FinalCheckAllSafetyPatterns ==
    Reported =>
        (outcome.metrics.final_validation.passed
            <=> StructurallySound(outcome.text,
                    inappropriate_patterns \cup misleading_patterns))

\* C8 as amended: the final check is of the returned text and passes exactly
\* when the length is in [50,2000], no pattern of the "inappropriate" category
\* occurs (the "misleading" patterns are not scanned), and an educational and
\* an encouragement marker occur.
C8_FinalCheckOnReturnedText ==
    Reported =>
        (outcome.metrics.final_validation.passed
            <=> StructurallySound(outcome.text, inappropriate_patterns))

\* A returned text that passed the final check and contains a "misleading"
\* pattern.
C8_Witness ==
    /\ Reported
    /\ outcome.metrics.final_validation.passed
    /\ misleading_patterns \cap outcome.text.has # {}

-----------------------------------------------------------------------------
(***************************************************************************)
(* HybridSearchEngine                                                      *)
(***************************************************************************)

\* The most chunks the collection holds, and the largest k asked for.
MaxChunks == 3
MaxK == 2

\* A text is the list of its whitespace-separated words.  The texts of the
\* chunks and of the queries explored.
SearchTexts ==
    { <<"cell">>, <<"Cell", "dna">>, <<"dna">> }

\* str.lower() on a word.
LowerWord(w) == IF w = "Cell" THEN "cell" ELSE w

\* text.lower().split() (lines 194, 202).
Terms(text) == [i \in 1..Len(text) |-> LowerWord(text[i])]

\* The metadata of the chunks of a document.
Sources == {"notes.txt"}

\* Vector distances (0: identical vectors) and cross-encoder scores, as
\* ranks.
Distances == {0, 1, 2}
RelevanceScores == {0, 1}

\* The embedding function is deterministic and the vectors normalized: a text
\* is at distance 0 from itself; distinct texts are taken to be apart.  (Of
\* the texts not in the collection the distance is never read.)
DistanceOracles(query) ==
    {d \in [SearchTexts -> Distances] :
        /\ \A t \in SearchTexts : (d[t] = 0) <=> (t = query)
        /\ \A t \in SearchTexts :
              (t # query /\ \A i \in 1..Len(collection) : collection[i].text # t)
                 => d[t] = 1}

\* sorted(items, key=..., reverse=True) and list.sort(..., reverse=True):
\* descending by key, items of equal key in their original order.
StableSortDesc(items, keys) ==
    LET n == Len(items)
        rank(i) == Cardinality({j \in 1..n : keys[j] > keys[i]})
                   + Cardinality({j \in 1..n : j < i /\ keys[j] = keys[i]}) + 1
    IN  [p \in 1..n |-> items[CHOOSE i \in 1..n : rank(i) = p]]

\* Python's s[:n] for n >= 0.
Take(s, n) == IF Len(s) <= n THEN s ELSE SubSeq(s, 1, n)

\* The orders in which the collection can list its chunks by ascending
\* distance (chunks at the same distance come in either order).
NearestOrders(dist) ==
    LET n == Len(collection)
    IN  {o \in [1..n -> 1..n] :
            /\ \A i, j \in 1..n : i # j => o[i] # o[j]
            /\ \A i, j \in 1..n :
                  i < j => dist[collection[o[i]].text]
                             <= dist[collection[o[j]].text]}

\* What the embedding model and the store answer to one semantic search:
\* a failure, or the distances and the order of the nearest chunks.
SemanticOracles(query) ==
    {[failed |-> TRUE]} \cup
    UNION {{[failed |-> FALSE, dist |-> d, order |-> o] : o \in NearestOrders(d)}
              : d \in DistanceOracles(query)}

\* semantic_search (lines 144-179).  The embedding call or the store may
\* fail, and the store refuses n_results = 0: the handler returns [].
semantic_search(query, k, oracle) ==
    IF oracle.failed \/ k = 0 THEN << >>
    ELSE LET n == IF Len(collection) <= k THEN Len(collection) ELSE k
         IN  [p \in 1..n |->
                [ content  |-> collection[oracle.order[p]].text,
                  metadata |-> collection[oracle.order[p]].metadata,
                  score    |-> oracle.dist[collection[oracle.order[p]].text],
                  id       |-> collection[oracle.order[p]].id ]]

\* Line 203: sum(1 for term in query_terms if term in doc_terms).
KeywordScore(query, doc) ==
    LET query_terms == Terms(query)
        doc_terms == Terms(doc)
    IN  Cardinality({i \in 1..Len(query_terms) :
            \E j \in 1..Len(doc_terms) : doc_terms[j] = query_terms[i]})

RECURSIVE ScoredDocs(_, _)
\* Lines 200-211: the chunks with a positive score, in collection order.
ScoredDocs(query, i) ==
    IF i > Len(collection) THEN << >>
    ELSE (IF KeywordScore(query, collection[i].text) > 0
          THEN << [ content  |-> collection[i].text,
                    metadata |-> collection[i].metadata,
                    score    |-> KeywordScore(query, collection[i].text),
                    id       |-> collection[i].id ] >>
          ELSE << >>)
         \o ScoredDocs(query, i + 1)

\* Line 214 sorting ascending.
KeywordOrderAscending(scored_docs) ==
    StableSortDesc(scored_docs, [i \in 1..Len(scored_docs) |-> 0 - scored_docs[i].score])

\* Line 214: scored_docs.sort(key=score, reverse=True).
KeywordOrder(scored_docs) ==
    StableSortDesc(scored_docs, [i \in 1..Len(scored_docs) |-> scored_docs[i].score])

\* keyword_search (lines 181-219).
keyword_search(query, k, failed) ==
    IF failed THEN << >>
    ELSE Take(KeywordOrder(ScoredDocs(query, 1)), k)

\* Line 248 left out.
RerankOrderUnsorted(scored) == scored

\* Line 248: sorted(results, key=relevance_score, reverse=True).
RerankOrder(scored) ==
    StableSortDesc(scored, [i \in 1..Len(scored) |-> scored[i].relevance_score])

\* What the cross-encoder answers for n pairs: a failure, or a score each.
RerankOracles(n) ==
    {[failed |-> TRUE]} \cup
    {[failed |-> FALSE, relevance |-> r] : r \in [1..n -> RelevanceScores]}

\* Line 254 returning nothing when the cross-encoder fails.
rerank_results_empty_on_failure(found, top_k, oracle) ==
    IF found = << >> \/ oracle.failed THEN << >>
    ELSE Take(RerankOrder(
                [i \in 1..Len(found) |->
                    [ content         |-> found[i].content,
                      metadata        |-> found[i].metadata,
                      semantic_score  |-> found[i].semantic_score,
                      keyword_score   |-> found[i].keyword_score,
                      id              |-> found[i].id,
                      hybrid_score    |-> found[i].hybrid_score,
                      relevance_score |-> oracle.relevance[i] ]]),
              top_k)

\* rerank_results (lines 221-254).
rerank_results(found, top_k, oracle) ==
    IF found = << >> THEN << >>
    ELSE IF oracle.failed THEN Take(found, top_k)
    ELSE Take(RerankOrder(
                [i \in 1..Len(found) |->
                    [ content         |-> found[i].content,
                      metadata        |-> found[i].metadata,
                      semantic_score  |-> found[i].semantic_score,
                      keyword_score   |-> found[i].keyword_score,
                      id              |-> found[i].id,
                      hybrid_score    |-> found[i].hybrid_score,
                      relevance_score |-> oracle.relevance[i] ]]),
              top_k)

\* Lines 303-306 with semantic_weight = 0.7, times 10.
HybridScore(semantic_score, keyword_score) ==
    7 * semantic_score + 3 * keyword_score

\* Lines 274-299: the semantic results, then the keyword results not among
\* them; a keyword result that is sets the keyword score.
CombinedResults(semantic_results, keyword_results) ==
    LET kwOf(id) ==
            IF \E j \in 1..Len(keyword_results) : keyword_results[j].id = id
            THEN keyword_results[CHOOSE j \in 1..Len(keyword_results) :
                                    keyword_results[j].id = id].score
            ELSE 0
        fromSemantic ==
            [i \in 1..Len(semantic_results) |->
                [ content        |-> semantic_results[i].content,
                  metadata       |-> semantic_results[i].metadata,
                  semantic_score |-> semantic_results[i].score,
                  keyword_score  |-> kwOf(semantic_results[i].id),
                  id             |-> semantic_results[i].id ]]
        kwOnly ==
            SelectSeq(keyword_results,
                LAMBDA r : \A i \in 1..Len(semantic_results) :
                                semantic_results[i].id # r.id)
        fromKeyword ==
            [i \in 1..Len(kwOnly) |->
                [ content        |-> kwOnly[i].content,
                  metadata       |-> kwOnly[i].metadata,
                  semantic_score |-> 0,
                  keyword_score  |-> kwOnly[i].score,
                  id             |-> kwOnly[i].id ]]
    IN  fromSemantic \o fromKeyword

\* hybrid_search, lines 270-314: the candidates handed to the reranker.
top_results(query, k, semantic_oracle, keyword_failed) ==
    LET semantic_results == semantic_search(query, k, semantic_oracle)
        keyword_results == keyword_search(query, k, keyword_failed)
        combined == CombinedResults(semantic_results, keyword_results)
        scored ==
            [i \in 1..Len(combined) |->
                [ content        |-> combined[i].content,
                  metadata       |-> combined[i].metadata,
                  semantic_score |-> combined[i].semantic_score,
                  keyword_score  |-> combined[i].keyword_score,
                  id             |-> combined[i].id,
                  hybrid_score   |-> HybridScore(combined[i].semantic_score,
                                                 combined[i].keyword_score) ]]
        final_results ==
            StableSortDesc(scored,
                [i \in 1..Len(scored) |-> scored[i].hybrid_score])
    IN  Take(final_results, k * 2)

\* hybrid_search (lines 256-321).
hybrid_search(query, k, semantic_oracle, keyword_failed, rerank_oracle) ==
    rerank_results(top_results(query, k, semantic_oracle, keyword_failed),
                   k, rerank_oracle)

NoSearch == [type |-> "none"]

InitSearch ==
    /\ collection = << >>
    /\ add_returned = "none"
    /\ search_stage = "IDLE"
    /\ search_call = NoSearch
    /\ results = << >>
    /\ ingested = {}
    /\ collection_bound = "live"
    /\ reset_call = [made |-> FALSE]

\* add_documents (lines 107-142), whose handler also covers the store's
\* error on a collection that was deleted.  texts are the chunks the splitter cuts the
\* documents into; their ids are chunk_0 .. chunk_{n-1} in every call.  The
\* store refuses an empty batch; on ids it already holds it either refuses the
\* batch or adds only the chunks whose ids are new (both are behaviours of
\* the store's add, by version; the choice is drawn only for a batch that
\* reaches the store with such ids).  The embedding call may fail.
AddDocuments ==
    /\ UNCHANGED notSearch
    /\ search_stage = "IDLE"
    /\ search_stage' = "ADDED"
    /\ \E texts \in SeqsUpTo(SearchTexts, MaxChunks), source \in Sources,
          embedding_fails \in BOOLEAN, store_refuses_known_ids \in BOOLEAN :
        LET ids == [i \in 1..Len(texts) |-> i - 1]
            held == {collection[j].id : j \in 1..Len(collection)}
            chunks == [i \in 1..Len(texts) |->
                        [id |-> ids[i], text |-> texts[i], metadata |-> source]]
            fresh == SelectSeq(chunks, LAMBDA c : c.id \notin held)
        IN  /\ store_refuses_known_ids =>
                  (~embedding_fails /\ Len(fresh) < Len(chunks))
            /\ IF \/ embedding_fails
                  \/ texts = << >>
                  \/ store_refuses_known_ids
                  \/ collection_bound = "deleted"
               THEN /\ add_returned' = "False"
                    /\ ingested' = {}
                    /\ UNCHANGED collection
               ELSE /\ add_returned' = "True"
                    /\ collection' = collection \o fresh
                    /\ ingested' = {[text |-> texts[i], metadata |-> source] :
                                       i \in 1..Len(texts)}
    /\ UNCHANGED <<search_call, results, resetVars>>

\* The caller has the result of add_documents.
AddReturned ==
    /\ UNCHANGED notSearch
    /\ search_stage = "ADDED"
    /\ search_stage' = "IDLE"
    /\ add_returned' = "none"
    /\ ingested' = {}
    /\ UNCHANGED <<collection, search_call, results, resetVars>>

\* Which of the calls a search made failed.
Fails(semantic_failed, keyword_failed, rerank_failed) ==
    (IF semantic_failed THEN {"semantic"} ELSE {})
    \cup (IF keyword_failed THEN {"keyword"} ELSE {})
    \cup (IF rerank_failed THEN {"rerank"} ELSE {})

\* search(query, search_type, k) (lines 323-343), with what the embedding
\* model, the store and the cross-encoder answer; every call to a deleted
\* collection fails.
Search ==
    /\ UNCHANGED notSearch
    /\ search_stage = "IDLE"
    /\ \E query \in SearchTexts, k \in 0..MaxK :
        \/ \E oracle \in SemanticOracles(query) :
              /\ collection_bound = "deleted" => oracle.failed
              /\ search_call' = [type |-> "semantic", query |-> query, k |-> k,
                                 fails |-> Fails(oracle.failed, FALSE, FALSE)]
              /\ results' = semantic_search(query, k, oracle)
        \/ \E failed \in BOOLEAN :
              /\ collection_bound = "deleted" => failed
              /\ search_call' = [type |-> "keyword", query |-> query, k |-> k,
                                 fails |-> Fails(FALSE, failed, FALSE)]
              /\ results' = keyword_search(query, k, failed)
        \/ \E semantic_oracle \in SemanticOracles(query),
               keyword_failed \in BOOLEAN :
            \E rerank_oracle \in RerankOracles(
                    Len(top_results(query, k, semantic_oracle, keyword_failed))) :
              /\ collection_bound = "deleted" =>
                    (semantic_oracle.failed /\ keyword_failed)
              /\ search_call' =
                    [type |-> "hybrid", query |-> query, k |-> k,
                     fails |-> Fails(semantic_oracle.failed, keyword_failed,
                                     rerank_oracle.failed)]
              /\ results' = hybrid_search(query, k, semantic_oracle,
                                          keyword_failed, rerank_oracle)
    /\ search_stage' = "RETURNED"
    /\ UNCHANGED <<collection, add_returned, ingested, resetVars>>

\* The caller has the list; results are per query and not kept.
SearchReturned ==
    /\ UNCHANGED notSearch
    /\ search_stage = "RETURNED"
    /\ search_stage' = "IDLE"
    /\ search_call' = NoSearch
    /\ results' = << >>
    /\ UNCHANGED <<collection, add_returned, ingested, resetVars>>

NextSearch == AddDocuments \/ AddReturned \/ Search \/ SearchReturned

\* reset_collection() (lines 364-381).  The store's delete_collection and
\* create_collection may each raise; delete_collection raises on a
\* collection the store no longer has.  self.collection is assigned only
\* when create_collection has returned (line 373).
ResetCollection ==
    /\ UNCHANGED notSearch
    /\ search_stage = "IDLE"
    /\ search_stage' = "RESET"
    /\ \E delete_fails \in BOOLEAN, create_fails \in BOOLEAN :
        /\ delete_fails => ~create_fails
        /\ collection_bound = "deleted" => delete_fails
        /\ IF delete_fails
           THEN /\ UNCHANGED <<collection, collection_bound>>
                /\ reset_call' = [made |-> TRUE, returned |-> "False",
                                  found |-> collection]
           ELSE /\ collection' = << >>
                /\ collection_bound' =
                     IF create_fails THEN "deleted" ELSE "live"
                /\ reset_call' =
                     [made |-> TRUE,
                      returned |-> IF create_fails THEN "False" ELSE "True",
                      found |-> collection]
    /\ UNCHANGED <<add_returned, search_call, results, ingested>>

\* The caller has the result of reset_collection.
ResetReturned ==
    /\ UNCHANGED notSearch
    /\ search_stage = "RESET"
    /\ search_stage' = "IDLE"
    /\ reset_call' = [made |-> FALSE]
    /\ UNCHANGED <<collection, add_returned, search_call, results, ingested,
                   collection_bound>>

NextReset == AddDocuments \/ AddReturned \/ ResetCollection \/ ResetReturned

\* C29: a reset_collection call that returned True leaves the engine bound
\* to an empty collection of the store; one that returned False leaves it
\* bound to the collection it found, with all its chunks.
C29_ResetAllOrNothing ==
    reset_call.made =>
        /\ collection_bound = "live"
        /\ reset_call.returned = "True" => collection = << >>
        /\ reset_call.returned = "False" => collection = reset_call.found


-----------------------------------------------------------------------------
(***************************************************************************)
(* Properties of HybridSearchEngine                                        *)
(***************************************************************************)

\* The search that has just returned was of this type.
Returned(type) == search_stage = "RETURNED" /\ search_call.type = type

\* Result r is chunk c of the collection.
IsChunk(r, c) == r.id = c.id /\ r.content = c.text /\ r.metadata = c.metadata

\* The positions of the chunks whose whole text is the query.
VerbatimChunks ==
    {i \in 1..Len(collection) : collection[i].text = search_call.query}

\* C9: a hybrid search returns at most k results, each a chunk of the
\* collection, and in descending order of relevance_score (the score the
\* reranker gives; when the reranker fails the results carry none).
C9_HybridAtMostKRanked ==
    Returned("hybrid") =>
        /\ Len(results) <= search_call.k
        /\ \A i \in 1..Len(results) :
              \E j \in 1..Len(collection) : IsChunk(results[i], collection[j])
        /\ "rerank" \notin search_call.fails =>
              /\ \A i \in 1..Len(results) :
                    "relevance_score" \in DOMAIN results[i]
              /\ \A i, j \in 1..Len(results) :
                    i < j => results[i].relevance_score
                               >= results[j].relevance_score

\* A hybrid search that had more candidates than k, and whose reranker put a
\* candidate of lower hybrid score first.
C9_Witness ==
    /\ Returned("hybrid")
    /\ search_call.fails = {}
    /\ search_call.k = 2
    /\ Len(results) = 2
    /\ Len(collection) > 2
    /\ results[1].relevance_score > results[2].relevance_score
    /\ results[1].hybrid_score < results[2].hybrid_score

\* The case of C10: a keyword-only or semantic-only search for the whole text
\* of a chunk of the collection, for at least one result, in which no call
\* failed.
VerbatimSearch ==
    /\ search_stage = "RETURNED"
    /\ search_call.type \in {"keyword", "semantic"}
    /\ search_call.k >= 1
    /\ search_call.fails = {}
    /\ VerbatimChunks # {}

\* C10 as stated: the chunk whose text is the query is the first result,
\* whatever else is in the collection and in whatever order it was added.
C10_VerbatimChunkFirst ==
    VerbatimSearch =>
        /\ results # << >>
        /\ results[1].content = search_call.query

\* C10, amended: the first result scores as the verbatim chunk does, which
\* is the best score there is.  For a keyword search that is one point per
\* query term, and the first result is the earliest chunk of the collection
\* containing every query term; for a semantic search it is distance 0.
C10_VerbatimChunkTopScore ==
    VerbatimSearch =>
        /\ results # << >>
        /\ search_call.type = "keyword" =>
              LET full == {i \in 1..Len(collection) :
                              KeywordScore(search_call.query, collection[i].text)
                                 = Len(Terms(search_call.query))}
                  first == CHOOSE i \in full : \A j \in full : i <= j
              IN  /\ VerbatimChunks \subseteq full
                  /\ results[1].score = Len(Terms(search_call.query))
                  /\ IsChunk(results[1], collection[first])
        /\ search_call.type = "semantic" =>
              /\ results[1].score = 0
              /\ \A i \in 1..Len(results) : results[i].score >= results[1].score

\* A keyword search for the text of a chunk that returned, before that chunk,
\* an earlier chunk containing the same terms and more.
C10_Witness ==
    /\ VerbatimSearch
    /\ search_call.type = "keyword"
    /\ Len(results) >= 2
    /\ results[1].content # search_call.query
    /\ results[2].content = search_call.query
    /\ results[1].score = results[2].score

\* C11: of two candidates of a hybrid search with equal keyword score, both
\* found by the semantic search, the one nearer to the query (the smaller
\* distance) does not get the lower hybrid score, and does not come later
\* in the pre-rerank order (the order returned when the reranker fails).
C11_CloserNeverLower ==
    (/\ Returned("hybrid")
     /\ "semantic" \notin search_call.fails
     /\ Len(collection) <= search_call.k) =>
        \A i, j \in 1..Len(results) :
            (/\ results[i].keyword_score = results[j].keyword_score
             /\ results[i].semantic_score < results[j].semantic_score) =>
                /\ results[i].hybrid_score >= results[j].hybrid_score
                /\ "rerank" \in search_call.fails => i < j

\* C12: every chunk of an add_documents call that returned True is in the
\* collection with its text and metadata, whatever was ingested before
\* (nothing resets the collection here).
C12_IngestedChunksStayIndexed ==
    \A c \in ingested :
        \E j \in 1..Len(collection) :
            /\ collection[j].text = c.text
            /\ collection[j].metadata = c.metadata

\* The ids of a list of results.
Ids(rs) == {rs[i].id : i \in 1..Len(rs)}

\* C13: a search returns a list whatever fails.  When the embedding call
\* fails, a hybrid search returns exactly the candidates of the keyword
\* search; when the reranker fails, it returns the candidates in pre-rerank
\* (hybrid score) order cut to k; on an empty collection it returns [].
C13_SearchDegrades ==
    search_stage = "RETURNED" =>
        /\ DOMAIN results = 1..Len(results)
        /\ collection = << >> => results = << >>
        /\ (search_call.type = "hybrid" /\ "semantic" \in search_call.fails) =>
              /\ Ids(results) =
                   Ids(keyword_search(search_call.query, search_call.k,
                                      "keyword" \in search_call.fails))
              /\ \A i \in 1..Len(results) : results[i].semantic_score = 0
        /\ (search_call.type = "hybrid" /\ "rerank" \in search_call.fails) =>
              \E oracle \in SemanticOracles(search_call.query) :
                  /\ oracle.failed = ("semantic" \in search_call.fails)
                  /\ results =
                       Take(top_results(search_call.query, search_call.k,
                                oracle, "keyword" \in search_call.fails),
                            search_call.k)

\* A hybrid search whose embedding call and reranker both failed and which
\* returned two keyword candidates, the better keyword match first.
C13_Witness ==
    /\ Returned("hybrid")
    /\ search_call.fails = {"semantic", "rerank"}
    /\ Len(results) = 2
    /\ results[1].keyword_score > results[2].keyword_score
    /\ results[1].id > results[2].id

-----------------------------------------------------------------------------
(***************************************************************************)
(* MultilingualRAGEngine.detect_language                                   *)
(***************************************************************************)

\* The most words in a text explored.
MaxWords == 2

\* The keys of self.supported_languages (lines 31-74).
supported_languages == {"en", "am", "om", "ti", "yo", "sw"}

\* The words texts are made of, named in ASCII:
\*   selam        three Ethiopic syllables (U+1200..U+135F), no keyword
\*   amarigna     the Amharic keyword of line 85 (four Ethiopic syllables)
\*   tigrigna     the Tigrigna keyword of line 87 (four Ethiopic syllables)
\*   ha           one Ethiopic syllable
\*   eth_numeral  three Ethiopic numerals (U+1369..U+1371)
\*   123          Latin digits
\*   Akkam, Bawo, Kini, Wapi   keywords of lines 86, 88, 88, 89
\*   hello, this  English words
\*   Ede          a word with letters of U+00C0..U+1EF9 (line 88's first)
\*   ...          punctuation only
\*   ab           two Latin letters
Words ==
    { "selam", "amarigna", "tigrigna", "ha", "eth_numeral", "123",
      "Akkam", "Bawo", "Kini", "Wapi", "hello", "this", "Ede", "...", "ab" }

\* The characters of a word that re.sub(r'[^\w\s]', '', .) keeps (line 99).
CleanLen(w) ==
    CASE w \in {"amarigna", "tigrigna", "Bawo", "Kini", "Wapi", "this"} -> 4
      [] w \in {"selam", "eth_numeral", "123", "Ede"} -> 3
      [] w \in {"Akkam", "hello"} -> 5
      [] w = "ab" -> 2
      [] w = "ha" -> 1
      [] OTHER -> 0

\* re.search(pattern, text, re.IGNORECASE) on one word, for the patterns of
\* lines 85-89.  "ETHIOPIC" is [U+1200-U+135F]; "LATIN" is [U+00C0-U+1EF9],
\* a range that holds the Ethiopic block and, case being ignored, matches the
\* letters s and i (through U+017F and U+0130/U+0131); the others are the
\* keyword lists of the five languages.
WordMatches(pattern, w) ==
    CASE pattern = "ETHIOPIC" -> w \in {"selam", "amarigna", "tigrigna", "ha"}
      [] pattern = "LATIN" ->
            w \in {"selam", "amarigna", "tigrigna", "ha", "eth_numeral",
                   "Ede", "Kini", "Wapi", "this"}
      [] pattern = "am_keywords" -> w = "amarigna"
      [] pattern = "om_keywords" -> w = "Akkam"
      [] pattern = "ti_keywords" -> w = "tigrigna"
      [] pattern = "yo_keywords" -> w \in {"Bawo", "Kini"}
      [] pattern = "sw_keywords" -> w = "Wapi"
      [] OTHER -> FALSE

\* self.language_patterns (lines 84-90), in dict order; each list starts with
\* the script range and goes on with the keywords.
language_patterns ==
    << [lang |-> "am", patterns |-> <<"ETHIOPIC", "am_keywords">>],
       [lang |-> "om", patterns |-> <<"ETHIOPIC", "om_keywords">>],
       [lang |-> "ti", patterns |-> <<"ETHIOPIC", "ti_keywords">>],
       [lang |-> "yo", patterns |-> <<"LATIN", "yo_keywords">>],
       [lang |-> "sw", patterns |-> <<"LATIN", "sw_keywords">>] >>

\* A text is the list of its words, or not a string at all.
StrText(ws) == [isStr |-> TRUE, words |-> ws]
NotAString == [isStr |-> FALSE, words |-> << >>]
DetectTexts == {StrText(ws) : ws \in SeqsUpTo(Words, MaxWords)} \cup {NotAString}

\* len(clean_text) (lines 99-101): the kept characters of the words and the
\* blanks between them, blanks at either end stripped.
CleanLength(ws) ==
    LET kept == {i \in 1..Len(ws) : CleanLen(ws[i]) > 0}
        first == CHOOSE i \in kept : \A j \in kept : i <= j
        last == CHOOSE i \in kept : \A j \in kept : j <= i
        RECURSIVE Sum(_)
        Sum(i) == IF i > last THEN 0 ELSE CleanLen(ws[i]) + Sum(i + 1)
    IN  IF kept = {} THEN 0 ELSE Sum(first) + (last - first)

\* re.search(pattern, text, re.IGNORECASE) (line 107).
Matches(pattern, ws) == \E i \in 1..Len(ws) : WordMatches(pattern, ws[i])

RECURSIVE PatternDetect(_, _)
\* Lines 105-108 from entry i on: the first language with a matching pattern,
\* "none" when the loops end.
PatternDetect(ws, i) ==
    IF i > Len(language_patterns) THEN "none"
    ELSE IF \E j \in 1..Len(language_patterns[i].patterns) :
                Matches(language_patterns[i].patterns[j], ws)
         THEN language_patterns[i].lang
         ELSE PatternDetect(ws, i + 1)

\* What langdetect.detect(text) does: it returns a language code, of the
\* supported ones or not, or raises.
DetectorOutcomes == supported_languages \cup {"fr", "raises"}

\* lang_mapping.get(detected, "en") (lines 114-123).
lang_mapping(detected) ==
    IF detected \in {"am", "om", "ti", "yo", "sw", "en"} THEN detected ELSE "en"

\* Lines 101-102 with the default "und".
ShortTextDefaultUnd == "und"

\* Line 102: the default for very short text.
ShortTextDefault == "en"

\* detect_language (lines 92-127).
detect_language(text, detector) ==
    IF ~text.isStr THEN "en"
    ELSE IF CleanLength(text.words) < 3 THEN ShortTextDefault
    ELSE IF PatternDetect(text.words, 1) # "none"
         THEN PatternDetect(text.words, 1)
    ELSE IF detector = "raises" THEN "en"
    ELSE lang_mapping(detector)

NoDetect == [text |-> NotAString, detector |-> "none"]

InitLanguage ==
    /\ detect_call = NoDetect
    /\ detected_language = "none"

\* One call of detect_language(text), with what langdetect would answer.
DetectLanguage ==
    /\ UNCHANGED notLanguage
    /\ detect_call = NoDetect
    /\ \E text \in DetectTexts, detector \in DetectorOutcomes :
        /\ detect_call' = [text |-> text, detector |-> detector]
        /\ detected_language' = detect_language(text, detector)

\* The caller has the code; the engine keeps nothing of the call.
LanguageReturned ==
    /\ UNCHANGED notLanguage
    /\ detect_call # NoDetect
    /\ detect_call' = NoDetect
    /\ detected_language' = "none"

NextLanguage == DetectLanguage \/ LanguageReturned

\* C14: detect_language returns one of the six supported codes; "en" when
\* the cleaned text has fewer than 3 characters (or detection raises);
\* otherwise the language of the first matching signature pattern whatever
\* the statistical detector says, and without a match the detector's code,
\* "en" when it is not a supported one.
C14_DetectOrder ==
    detect_call # NoDetect =>
        LET text == detect_call.text
            byPattern == PatternDetect(text.words, 1)
        IN  /\ detected_language \in supported_languages
            /\ (~text.isStr \/ CleanLength(text.words) < 3) =>
                  detected_language = "en"
            /\ (text.isStr /\ CleanLength(text.words) >= 3) =>
                  /\ byPattern # "none" => detected_language = byPattern
                  /\ byPattern = "none" =>
                        detected_language =
                            (IF detect_call.detector \in supported_languages
                             THEN detect_call.detector ELSE "en")

\* A text with a keyword of one language, detected as that language although
\* the statistical detector answers another supported code.
C14_Witness ==
    /\ detect_call.text = StrText(<<"Akkam", "hello">>)
    /\ detect_call.detector = "sw"
    /\ detected_language = "om"

\* The words written in the Ethiopic script, the script of Amharic.
AmharicScriptWords == {"selam", "amarigna", "tigrigna", "ha", "eth_numeral"}

\* C15: a text of at least the minimum length that holds characters of the
\* Amharic script is detected as "am", Latin digits or not.
C15_AmharicScriptIsAm ==
    (/\ detect_call # NoDetect
     /\ detect_call.text.isStr
     /\ CleanLength(detect_call.text.words) >= 3
     /\ \E i \in 1..Len(detect_call.text.words) :
            detect_call.text.words[i] \in AmharicScriptWords) =>
        detected_language = "am"

\* The keywords of entry i of language_patterns: what follows the script range.
KeywordsOf(i) == language_patterns[i].patterns[2]

\* C30: a text of at least the minimum length that holds a keyword of one of
\* the five locales, and no keyword of another one, is detected as that
\* locale by the signature patterns.
C30_OwnKeywordsDetected ==
    (/\ detect_call # NoDetect
     /\ detect_call.text.isStr
     /\ CleanLength(detect_call.text.words) >= 3) =>
        \A i \in 1..Len(language_patterns) :
            (/\ Matches(KeywordsOf(i), detect_call.text.words)
             /\ \A j \in 1..Len(language_patterns) :
                    j # i => ~Matches(KeywordsOf(j), detect_call.text.words)) =>
                detected_language = language_patterns[i].lang

-----------------------------------------------------------------------------
(***************************************************************************)
(* YenetaApp.generate_ai_response                                          *)
(***************************************************************************)

\* The most uploaded files explored.
MaxFiles == 2

\* max_chars (app.py:1596).
max_chars == 4000

\* len("[File: a.txt]\n"): the header put before the text of a file.
FileHeaderLen == 14

\* An uploaded file by what the context builder reads of it: the kind of its
\* content (bytes that decode, bytes of a document that cannot be read, a
\* string, None) and the length of the text it yields.
UploadedFiles ==
    { [kind |-> "bytes",      text_len |-> 1000],
      [kind |-> "bytes",      text_len |-> 5000],
      [kind |-> "unreadable", text_len |-> 0],
      [kind |-> "str",        text_len |-> 1000],
      [kind |-> "none",       text_len |-> 0] }

RECURSIVE ContextChunks(_, _)
\* Lines 1598-1607: the chunk lengths, in order; the loop stops once the
\* chunks gathered hold max_chars characters.  total is what is gathered.
ContextChunks(files, total) ==
    IF files = << >> THEN << >>
    ELSE LET f == Head(files)
             chunk == IF f.text_len > 0 THEN <<FileHeaderLen + f.text_len>>
                      ELSE << >>
             now == total + (IF f.text_len > 0
                             THEN FileHeaderLen + f.text_len ELSE 0)
         IN  IF now >= max_chars THEN chunk
             ELSE chunk \o ContextChunks(Tail(files), now)

RECURSIVE SumLens(_)
SumLens(ls) == IF ls = << >> THEN 0 ELSE Head(ls) + SumLens(Tail(ls))

\* Line 1608: len("\n\n".join(context_chunks)[:max_chars]).
ContextLen(files) ==
    LET chunks == ContextChunks(files, 0)
        joined == SumLens(chunks)
                  + (IF Len(chunks) > 0 THEN 2 * (Len(chunks) - 1) ELSE 0)
    IN  IF joined > max_chars THEN max_chars ELSE joined

\* The language argument: a label of the selector, one it does not know, or
\* a value that is not a string.
LanguageLabels == {"English", "Amharic", "Klingon", "not a string"}

\* Lines 1611-1626: lang_map by the label found in the selection, 'en'
\* when none is.
TargetLang(language) ==
    CASE language = "English" -> "en"
      [] language = "Amharic" -> "am"
      [] OTHER -> "en"

\* What the answer of a call is, as its caller can tell: the kind of text,
\* whether it is the empty string, and whether it carries the text of the
\* exception that made the call fail.
Answer(kind, empty, names_failure) ==
    [kind |-> kind, empty |-> empty, names_failure |-> names_failure]

\* What chain.invoke does in generate_multilingual_response
\* (multilingual_rag.py:160-165): a reply, which may be the empty string, or
\* an exception.
GenerationOutcomes == {"text", "empty", "raises"}

\* generate_multilingual_response (multilingual_rag.py:133-171): the reply,
\* post-processed (which changes nothing), or the sentence of line 171,
\* which names the language and not the exception.
generate_multilingual_response(generation) ==
    CASE generation = "text"  -> Answer("generated", FALSE, FALSE)
      [] generation = "empty" -> Answer("generated", TRUE, FALSE)
      [] OTHER -> Answer("engine_error_sentence", FALSE, FALSE)

\* Lines 1649-1667: the answer made without the engine.
LocalFallback(ctx_len) ==
    IF ctx_len > 0 THEN Answer("file_excerpt", FALSE, FALSE)
    ELSE Answer("demo_template", FALSE, FALSE)

\* Lines 1671-1672: "Sorry, I encountered an error: {e}. Please try again."
OrchestratorHandler == Answer("error_message", FALSE, TRUE)

NoAnswer == [kind |-> "none", empty |-> FALSE, names_failure |-> FALSE]
NoCall == [prompt |-> "none"]

\* YenetaApp.__init__ (app.py:840-843): setup_rag_engines has made the
\* engine or has failed to.
InitOrchestrator ==
    /\ has_multilingual_rag = FALSE
    /\ orch_stage = "NEW"
    /\ orch_call = NoCall
    /\ context_len = 0
    /\ target_lang = "none"
    /\ orch_response = NoAnswer
    /\ orch_trace = << >>

\* setup_rag_engines (app.py:907-930), called by __init__: the engine
\* attribute is set unless a constructor raises.
SetupRagEngines ==
    /\ UNCHANGED notOrchestrator
    /\ orch_stage = "NEW"
    /\ has_multilingual_rag' \in BOOLEAN
    /\ orch_stage' = "IDLE"
    /\ UNCHANGED <<orch_call, context_len, target_lang, orch_response,
                   orch_trace>>

\* A call generate_ai_response(prompt, language, level) with the files
\* uploaded so far.
GenerateAiResponse ==
    /\ UNCHANGED notOrchestrator
    /\ orch_stage = "IDLE"
    /\ \E language \in LanguageLabels, files \in SeqsUpTo(UploadedFiles, MaxFiles) :
          orch_call' = [prompt |-> "question", language |-> language,
                        level |-> "beginner", files |-> files]
    /\ orch_stage' = "BUILD_CONTEXT"
    /\ UNCHANGED <<has_multilingual_rag, context_len, target_lang,
                   orch_response, orch_trace>>

\* Lines 1594-1608: the context from the uploaded files.  A file that
\* cannot be read yields no text (_extract_text_from_bytes returns "").
BuildContext ==
    /\ UNCHANGED notOrchestrator
    /\ orch_stage = "BUILD_CONTEXT"
    /\ context_len' = ContextLen(orch_call.files)
    /\ orch_trace' = Append(orch_trace, "retrieve_context")
    /\ orch_stage' = "MAP_LANGUAGE"
    /\ UNCHANGED <<has_multilingual_rag, orch_call, target_lang, orch_response>>

\* Lines 1610-1626; language.strip() raises on a value that is not a
\* string, and the handler of line 1671 answers.
MapLanguage ==
    /\ UNCHANGED notOrchestrator
    /\ orch_stage = "MAP_LANGUAGE"
    /\ IF orch_call.language = "not a string"
       THEN /\ orch_response' = OrchestratorHandler
            /\ orch_stage' = "RETURNED"
            /\ UNCHANGED <<target_lang, orch_trace>>
       ELSE /\ target_lang' = TargetLang(orch_call.language)
            /\ orch_trace' = Append(orch_trace, "route_language")
            /\ orch_stage' = "ENSURE_ENGINE"
            /\ UNCHANGED orch_response
    /\ UNCHANGED <<has_multilingual_rag, orch_call, context_len>>

\* Lines 1628-1639: the engine is made now if it was not; that may fail.
EnsureEngine ==
    /\ UNCHANGED notOrchestrator
    /\ orch_stage = "ENSURE_ENGINE"
    /\ \/ has_multilingual_rag' = has_multilingual_rag
       \/ ~has_multilingual_rag /\ has_multilingual_rag' = TRUE
    /\ orch_stage' = "GENERATE"
    /\ UNCHANGED <<orch_call, context_len, target_lang, orch_response,
                   orch_trace>>

\* Lines 1641-1667: the answer of the engine, or the local fallback.
Generate ==
    /\ UNCHANGED notOrchestrator
    /\ orch_stage = "GENERATE"
    /\ IF has_multilingual_rag
       THEN \E generation \in GenerationOutcomes :
              /\ orch_response' = generate_multilingual_response(generation)
              /\ orch_trace' = orch_trace \o
                    <<"generate_draft">> \o
                    (IF generation = "raises" THEN <<"generation_failed">>
                     ELSE << >>)
       ELSE /\ orch_response' = LocalFallback(context_len)
            /\ orch_trace' = Append(orch_trace, "local_fallback")
    /\ orch_stage' = "RETURNED"
    /\ UNCHANGED <<has_multilingual_rag, orch_call, context_len, target_lang>>

\* Line 1669: the caller has the answer.
AiResponseReturned ==
    /\ UNCHANGED notOrchestrator
    /\ orch_stage = "RETURNED"
    /\ orch_stage' = "IDLE"
    /\ orch_call' = NoCall
    /\ context_len' = 0
    /\ target_lang' = "none"
    /\ orch_response' = NoAnswer
    /\ orch_trace' = << >>
    /\ UNCHANGED has_multilingual_rag

NextOrchestrator ==
    \/ SetupRagEngines
    \/ GenerateAiResponse
    \/ BuildContext
    \/ MapLanguage
    \/ EnsureEngine
    \/ Generate
    \/ AiResponseReturned

\* Stage a comes before stage b in the trace.
Before(a, b) ==
    \E i, j \in 1..Len(orch_trace) :
        i < j /\ orch_trace[i] = a /\ orch_trace[j] = b

\* C19: an answer is returned only after the stages of its query have run in
\* the order route language, retrieve context, adapt for level, generate
\* draft, validate/repair, personalize.
C19_StagesBeforeReturn ==
    (orch_stage = "RETURNED" /\ orch_response.kind = "generated") =>
        /\ Before("route_language", "retrieve_context")
        /\ Before("retrieve_context", "adapt_level")
        /\ Before("adapt_level", "generate_draft")
        /\ Before("generate_draft", "validate_repair")
        /\ Before("validate_repair", "personalize")

\* C20: generate_ai_response returns a string that is not empty, whatever
\* fails; unreadable files leave the context empty and the call goes on; a
\* failed generation call gives a message that names the failure.
C20_AnswerNeverEmpty ==
    orch_stage = "RETURNED" =>
        /\ orch_response.kind # "raised"
        /\ ~orch_response.empty
        /\ "generation_failed" \in {orch_trace[i] : i \in 1..Len(orch_trace)}
              => orch_response.names_failure

-----------------------------------------------------------------------------
(***************************************************************************)
(* AdaptiveRAGEngine.generate_response                                     *)
(***************************************************************************)

\* self.learning_levels (lines 26-57), without the display fields.
learning_levels ==
    [ beginner     |-> [ name |-> "Beginner", complexity |-> 1,
                         max_sentence_length |-> 15, use_examples |-> TRUE,
                         use_analogies |-> TRUE, scaffolding |-> TRUE ],
      intermediate |-> [ name |-> "Intermediate", complexity |-> 2,
                         max_sentence_length |-> 25, use_examples |-> TRUE,
                         use_analogies |-> FALSE, scaffolding |-> FALSE ],
      advanced     |-> [ name |-> "Advanced", complexity |-> 3,
                         max_sentence_length |-> 40, use_examples |-> FALSE,
                         use_analogies |-> FALSE, scaffolding |-> FALSE ] ]

\* The level arguments: the three levels and a value that is none of them.
AdaptiveLevels == {"beginner", "intermediate", "advanced", "expert"}

\* The questions asked and the language they are asked in.
AdaptiveQueries == { <<"smart", "algebra">>, <<"physics">> }
AdaptiveLanguages == {"en"}

\* The most questions counted per level and language (line 323 counts
\* without limit).
MaxQuestions == 1

\* Line 79: self.learning_levels.get(level, self.learning_levels["beginner"]).
LevelConfig(level) ==
    IF level \in DOMAIN learning_levels THEN learning_levels[level]
    ELSE learning_levels["beginner"]

\* _get_adaptive_prompt(level, language) (lines 114-185): the instruction
\* block appended to the base prompt, named by the level it is written for.
\* The language is not used.
_get_adaptive_prompt(level, language) ==
    IF level = "beginner" THEN "beginner"
    ELSE IF level = "intermediate" THEN "intermediate"
    ELSE "advanced"

\* _post_process_response(response, level_config) (lines 187-210): the
\* helpers applied to the reply, in order.
_post_process_response(reply, level_config) ==
    [ text  |-> reply,
      steps |->
        IF level_config.complexity = 1
        THEN <<"_simplify_language", "_add_encouragement", "_add_scaffolding">>
        ELSE IF level_config.complexity = 2
        THEN <<"_balance_complexity", "_add_connections">>
        ELSE <<"_enhance_complexity", "_add_advanced_insights">> ]

\* The topic names _extract_topics of this engine looks for (lines 331-335).
AdaptiveCommonTopics ==
    { "mathematics", "science", "history", "literature", "language",
      "geography", "biology", "chemistry", "physics", "art", "music",
      "sports" }

\* _track_progress(query, level, language) (lines 312-326).
_track_progress(progress, query, level, language) ==
    LET progress_key == <<level, language>>
        old == IF progress_key \in DOMAIN progress THEN progress[progress_key]
               ELSE [questions_asked |-> 0, topics_covered |-> {}]
        topics == UNION {TopicsInWord(query[i]) : i \in 1..Len(query)}
                    \cap AdaptiveCommonTopics
    IN  [k \in DOMAIN progress \cup {progress_key} |->
            IF k = progress_key
            THEN [ questions_asked |-> old.questions_asked + 1,
                   topics_covered  |-> old.topics_covered \cup topics ]
            ELSE progress[k]]

InitAdaptive ==
    /\ learning_progress = << >>
    /\ adaptive_call = [made |-> FALSE]
    /\ adaptive_response = [kind |-> "none"]

\* generate_response(query, language, level, context) (lines 69-112), with
\* what the model call does: it answers or raises.
GenerateResponse ==
    /\ UNCHANGED notAdaptive
    /\ ~adaptive_call.made
    /\ \E query \in AdaptiveQueries, language \in AdaptiveLanguages,
          level \in AdaptiveLevels, model_raises \in BOOLEAN :
        LET level_config == LevelConfig(level)
            prompt_template == _get_adaptive_prompt(level, language)
            asked == IF <<level, language>> \in DOMAIN learning_progress
                     THEN learning_progress[<<level, language>>].questions_asked
                     ELSE 0
        IN  /\ ~model_raises => asked < MaxQuestions
            /\ adaptive_call' = [ made            |-> TRUE,
                                  level           |-> level,
                                  prompt_template |-> prompt_template,
                                  level_config    |-> level_config,
                                  raised          |-> model_raises ]
            /\ IF model_raises
               THEN /\ adaptive_response' = [kind |-> "sorry", level |-> level]
                    /\ UNCHANGED learning_progress
               ELSE /\ adaptive_response' =
                         [kind |-> "answer"]
                         @@ _post_process_response("reply", level_config)
                    /\ learning_progress' =
                         _track_progress(learning_progress, query, level,
                                         language)

\* The caller takes the answer.
GenerateReturned ==
    /\ UNCHANGED notAdaptive
    /\ adaptive_call.made
    /\ adaptive_call' = [made |-> FALSE]
    /\ adaptive_response' = [kind |-> "none"]
    /\ UNCHANGED learning_progress

NextAdaptive == GenerateResponse \/ GenerateReturned

\* The level a level argument stands for: itself, or beginner when it is
\* not a level.
EffectiveLevel(level) ==
    IF level \in {"beginner", "intermediate", "advanced"} THEN level
    ELSE "beginner"

\* C27: in every generate_response call the instruction template, the level
\* profile that fills the prompt and the post-processing are those of one
\* level: the level given, or beginner when the value given is not a level.
C27_TemplateAndProfileAgree ==
    adaptive_call.made =>
        LET level == EffectiveLevel(adaptive_call.level)
        IN  /\ adaptive_call.prompt_template = level
            /\ adaptive_call.level_config = learning_levels[level]
            /\ ~adaptive_call.raised =>
                  adaptive_response.steps =
                      _post_process_response("reply",
                                             learning_levels[level]).steps

-----------------------------------------------------------------------------
Init ==
    InitMemory /\ InitValidator /\ InitSearch /\ InitLanguage
    /\ InitOrchestrator /\ InitAdaptive

Next ==
    \/ NextMemory \/ NextMastery \/ NextPersonalize \/ NextSnapshot
    \/ NextClear \/ NextConcurrent
    \/ NextValidator \/ NextSearch \/ NextReset
    \/ NextLanguage \/ NextOrchestrator \/ NextAdaptive

SpecMemory == Init /\ [][NextMemory]_vars

SpecMastery == Init /\ [][NextMastery]_vars

SpecPersonalize == Init /\ [][NextPersonalize]_vars

SpecSnapshot == Init /\ [][NextSnapshot]_vars

SpecClear == Init /\ [][NextClear]_vars

SpecAdaptive == Init /\ [][NextAdaptive]_vars

SpecReset == Init /\ [][NextReset]_vars

SpecConcurrent == Init /\ [][NextConcurrent]_vars

SpecValidator == Init /\ [][NextValidator]_vars

SpecSearch == Init /\ [][NextSearch]_vars

SpecLanguage == Init /\ [][NextLanguage]_vars

SpecOrchestrator == Init /\ [][NextOrchestrator]_vars

Spec == Init /\ [][Next]_vars

=============================================================================
